---- MODULE Spec2Model ----
(***************************************************************************)
(* SQL execution gateway of mcp-registry: connection registry, pooled      *)
(* checkout, security validation and query/transaction/batch execution.    *)
(*                                                                         *)
(* The repository holds three variants of the gateway; `impl' selects one: *)
(*   "QT"  tools/query.py QueryTool + tools/connection.py                  *)
(*         ConnectionManager + db/pool.py ConnectionPool + db/executor.py  *)
(*         SQLExecutor (asyncpg)                                           *)
(*   "QS"  application/services QueryService + infrastructure/database     *)
(*         PostgreSQLQueryExecutor + PostgreSQLConnectionPool (asyncpg)    *)
(*   "MY"  mysql_mcp MySQLQueryExecutor + MySQLConnectionPool (aiomysql)   *)
(*                                                                         *)
(* One step of a task is the code between two suspension points (awaits    *)
(* that reach the driver or the pool).                                     *)
(***************************************************************************)
EXTENDS Integers, Sequences, FiniteSets, TLC

\* ---------------------------------------------------------------- bounds
MaxSize == 1
MaxStmts == 2
MaxPools == 2
MaxBatch == 1

\* two concurrent callers: task 1 issues every kind of call, task 2 issues
\* registry calls, single queries and connection tests
Procs == {1, 2}
Heavy == {1}
Ids == {"c1"}
PoolRefs == 1..MaxPools
Conns == 1..MaxSize
Impls == {"QT", "QS", "MY"}
\* the connection_id values the collector is called with: it keeps a
\* dictionary entry for whatever id it is given, registered or not
MetricKeys == Ids \cup {"c2"}

\* ------------------------------------------------------------ statements
\* A statement is the sequence of its whitespace-separated words.
SqlSelect == <<"SELECT", "1">>
SqlInsert == <<"INSERT", "INTO", "t", "VALUES", "(1)">>
SqlDrop == <<"DROP", "TABLE", "users">>
SQL == {SqlSelect, SqlInsert, SqlDrop}
\* the empty statement string
SqlEmpty == <<>>

RECURSIVE SeqsUpTo(_, _)
SeqsUpTo(S, n) ==
  IF n = 0 THEN {<<>>}
  ELSE LET shorter == SeqsUpTo(S, n - 1)
       IN shorter \cup {Append(s, x) : s \in {t \in shorter : Len(t) = n - 1}, x \in S}

\* ---------------------------------------------------- security validator
max_query_length == 10000
allowed_operations == {"SELECT", "INSERT", "UPDATE", "DELETE"}
blocked_keywords == {"DROP", "TRUNCATE", "ALTER"}
readonly_mode == FALSE
ReadonlyOperations == {"SELECT", "WITH", "EXPLAIN"}
operation_patterns ==
  {"SELECT", "INSERT", "UPDATE", "DELETE", "WITH", "CREATE", "DROP", "ALTER",
   "TRUNCATE", "EXPLAIN", "COPY", "VACUUM", "REINDEX", "ANALYZE", "GRANT", "REVOKE"}
dangerous_keywords ==
  {"DROP", "TRUNCATE", "ALTER", "CREATE", "GRANT", "REVOKE", "COPY", "VACUUM",
   "REINDEX", "ANALYZE", "CLUSTER"}

_get_operation_type(q) ==
  IF Len(q) > 0 /\ q[1] \in operation_patterns THEN q[1] ELSE "UNKNOWN"

HasWord(q, W) == \E k \in 1..Len(q) : q[k] \in W

\* a dangerous keyword followed by white space, DELETE FROM without WHERE,
\* UPDATE ... SET
_dangerous_patterns(q) ==
  \/ \E k \in 1..(Len(q) - 1) : q[k] \in dangerous_keywords
  \/ \E k \in 1..(Len(q) - 2) :
        /\ q[k] = "DELETE" /\ q[k + 1] = "FROM"
        /\ ~ \E j \in (k + 2)..Len(q) : q[j] = "WHERE"
  \/ \E k \in 1..(Len(q) - 1) :
        /\ q[k] = "UPDATE" /\ \E j \in (k + 1)..(Len(q) - 1) : q[j] = "SET"

\* A statement string is the sequence of its lexical tokens: word pieces,
\* white space (" ", "\n"), block comments ("/*c*/") and line comments
\* ("--c", which runs to the end of its line).
WhiteSpace == {" ", "\n"}
BlockComment == "/*c*/"
LineComment == "--c"

\* len(query): the number of characters
RECURSIVE Length(_)
Length(raw) == IF raw = <<>> THEN 0 ELSE Len(Head(raw)) + Length(Tail(raw))

\* re.sub(r'--.*$', '', query, flags=re.MULTILINE): a line comment goes,
\* with everything up to the end of its line
RECURSIVE StripLineComments(_, _)
StripLineComments(raw, inComment) ==
  IF raw = <<>> THEN <<>>
  ELSE IF Head(raw) = "\n" THEN <<"\n">> \o StripLineComments(Tail(raw), FALSE)
  ELSE IF inComment \/ Head(raw) = LineComment THEN StripLineComments(Tail(raw), TRUE)
  ELSE <<Head(raw)>> \o StripLineComments(Tail(raw), FALSE)

\* re.sub(r'/\*.*?\*/', '', query, flags=re.DOTALL)
StripBlockComments(raw) == SelectSeq(raw, LAMBDA tok : tok # BlockComment)

\* re.sub(r'\s+', ' ', query.strip()): the words of the text; pieces with
\* nothing between them are one word
RECURSIVE Words(_, _)
Words(raw, word) ==
  IF raw = <<>> THEN IF word = "" THEN <<>> ELSE <<word>>
  ELSE IF Head(raw) \in WhiteSpace
       THEN (IF word = "" THEN <<>> ELSE <<word>>) \o Words(Tail(raw), "")
       ELSE Words(Tail(raw), word \o Head(raw))

\* SecurityValidator._clean_query
_clean_query(raw) == Words(StripBlockComments(StripLineComments(raw, FALSE)), "")

\* the text of a statement given by its words
RECURSIVE Spaced(_)
Spaced(q) ==
  IF Len(q) <= 1 THEN q ELSE <<Head(q), " ">> \o Spaced(Tail(q))

\* SecurityConfig(): the defaults
DefaultConfig ==
  [readonly_mode |-> readonly_mode, allowed_operations |-> allowed_operations,
   blocked_keywords |-> <<"DROP", "TRUNCATE", "ALTER">>,
   max_query_length |-> max_query_length]

Valid == [is_valid |-> TRUE, blocked_reason |-> "", named |-> ""]
Invalid(reason, named) == [is_valid |-> FALSE, blocked_reason |-> reason, named |-> named]

\* the first keyword of the list that occurs as a word of q
FirstBlocked(keywords, q) ==
  keywords[CHOOSE k \in 1..Len(keywords) :
             /\ HasWord(q, {keywords[k]})
             /\ \A j \in 1..(k - 1) : ~ HasWord(q, {keywords[j]})]

\* SecurityValidator(config).validate_query(query): the result with its
\* blocked_reason and the keyword or operation its error message names
validate(config, query) ==
  IF Length(query) > config.max_query_length THEN Invalid("QUERY_TOO_LONG", "")
  ELSE LET q == _clean_query(query)
           operation_type == _get_operation_type(q)
           blocked == {config.blocked_keywords[k] : k \in 1..Len(config.blocked_keywords)}
       IN IF operation_type \notin config.allowed_operations
            THEN Invalid("OPERATION_NOT_ALLOWED", operation_type)
          ELSE IF config.readonly_mode /\ operation_type \notin ReadonlyOperations
            THEN Invalid("READONLY_MODE_VIOLATION", "")
          ELSE IF HasWord(q, blocked)
            THEN Invalid("BLOCKED_KEYWORD", FirstBlocked(config.blocked_keywords, q))
          ELSE IF _dangerous_patterns(q) THEN Invalid("DANGEROUS_PATTERN", "")
          ELSE Valid

\* SecurityValidator.validate_query with the default configuration on the
\* statement with words q: the blocked reason, "" when accepted
validate_query(q) == validate(DefaultConfig, Spaced(q)).blocked_reason

\* PostgreSQLSecurityValidator.validate_query: TRUE when accepted
PGvalidate_query(q) ==
  IF Len(q) > max_query_length THEN FALSE
  ELSE LET operation == IF Len(q) > 0 THEN q[1] ELSE ""
       IN IF readonly_mode /\ operation \notin ReadonlyOperations THEN FALSE
          ELSE IF operation \notin allowed_operations THEN FALSE
          ELSE IF HasWord(q, blocked_keywords) THEN FALSE
          ELSE ~ \E k \in 1..Len(q) : q[k] = "UNION" /\ \E j \in (k + 1)..Len(q) : q[j] = "SELECT"

\* QueryBuilder.validate_query_structure (statements carry no parameters here)
validate_query_structure(q) == Len(q) > 0 /\ ~ HasWord(q, {"$"})

startswith(q, W) == Len(q) > 0 /\ q[1] \in W

\* ------------------------------------------------------------------ state
VARIABLES
  impl,          \* which variant of the gateway runs
  pools,         \* registry: id -> pool reference (0: no entry)
  connections,   \* registry: id -> descriptor ("none", "active", "inactive")
  lock,          \* MySQLConnectionPool._lock: holder task or 0
  poolState,     \* pool object -> "unused" | "open" | "closing" | "closed"
  free,          \* pool object -> its idle physical connections
  txOpen,        \* <<pool, conn>> -> a backend transaction is open on it
  pending,       \* <<pool, conn>> -> uncommitted effects of the open transaction
  savepoint,     \* <<pool, conn>> -> effects at the live savepoint, or {<<0, 0>>}
  committed,     \* effects visible to every later query
  task,          \* task -> its operation, position and locals
  connection_metrics,  \* collector: id -> counters, average, recent records
  global_metrics,      \* collector: counters over all ids
  query_history,       \* the server's list of recent records (QT)
  record_log,          \* every record call since the last reset that covers it
  config,        \* validator: the SecurityConfig it was built with
  sql,           \* validator: the statement text handed to it, as tokens
  validation,    \* validator: the result of validate_query on sql
  backend,       \* health: connection id -> "absent" or how its test answers
  host,          \* health: memory and system load of the host
  probe,         \* health: the check_connection_health call in progress
  report         \* health: the result of the last health check

\* the state of the metrics collector
mvars == <<connection_metrics, global_metrics, query_history, record_log>>

\* the state of the security validator
svars == <<config, sql, validation>>

\* the state of the health checker
hvars == <<backend, host, probe, report>>

\* the components beside the gateway
ovars == <<mvars, svars, hvars>>

\* the gateway
gvars == <<impl, pools, connections, lock, poolState, free, txOpen, pending,
           savepoint, committed, task>>

vars == <<impl, pools, connections, lock, poolState, free, txOpen, pending,
          savepoint, committed, task, ovars>>

NoSavepoint == {<<0, 0>>}

NoResult ==
  [success |-> FALSE, rolled_back |-> FALSE, error |-> "", error_type |-> "",
   raised |-> FALSE]

IdleTask ==
  [pc |-> "idle", op |-> "none", id |-> "-", pool |-> 0, conn |-> 0,
   queries |-> <<>>, fail_on_error |-> <<>>, i |-> 0, results |-> <<>>,
   batch_size |-> 0, accepted |-> {}, dispatched |-> <<>>, checkouts |-> 0,
   returns |-> 0, failed |-> FALSE, dup |-> FALSE, recorded |-> <<>>,
   todo |-> {}, res |-> NoResult]

\* a collector that has recorded nothing: the counters are zero, the average
\* is the fraction 0/1
\* validate_query has not been called on sql
NotValidated == [is_valid |-> FALSE, blocked_reason |-> "none", named |-> ""]

\* the connection ids of the health checker's registry
HealthIds == {"h1", "h2", "h3"}

\* no check_connection_health call is in progress
IdleProbe ==
  [pc |-> "idle", id |-> "-", elapsed |-> 0,
   todo |-> {},        \* check_system_health: listed connections not tested yet
   healthy |-> 0,      \* healthy_count / healthy_connections so far
   unhealthy |-> 0,    \* unhealthy_count / unhealthy_connections so far
   raced |-> FALSE,    \* ghost: the registry or a backend changed since the listing
   gone |-> FALSE]     \* ghost: a listed connection was no longer registered at its test

\* no health check has returned yet
NoReport == [kind |-> "none", is_healthy |-> FALSE, status |-> "", connections |-> "",
             detail |-> ""]

ZeroMetrics ==
  [total_queries |-> 0, successful_queries |-> 0, failed_queries |-> 0,
   total_execution_time_ms |-> 0, average_execution_time_ms |-> <<0, 1>>,
   query_history |-> <<>>]

ZeroGlobal ==
  [total_queries |-> 0, successful_queries |-> 0, failed_queries |-> 0,
   total_execution_time_ms |-> 0]

\* a collector without records
MetricsStart ==
  /\ connection_metrics = [id \in MetricKeys |-> ZeroMetrics]
  /\ global_metrics = ZeroGlobal
  /\ query_history = <<>>
  /\ record_log = <<>>

\* a validator with the default configuration that has validated nothing
ValidatorStart ==
  /\ config = DefaultConfig
  /\ sql = <<>>
  /\ validation = NotValidated

\* a health checker that has checked nothing, no connection registered
HealthStart ==
  /\ backend = [id \in HealthIds |-> "absent"]
  /\ host = [memory |-> "ok", system |-> "ok"]
  /\ probe = IdleProbe
  /\ report = NoReport

\* a gateway without registered connections, every caller idle
GatewayStart ==
  /\ impl \in Impls
  /\ pools = [id \in Ids |-> 0]
  /\ connections = [id \in Ids |-> "none"]
  /\ lock = 0
  /\ poolState = [k \in PoolRefs |-> "unused"]
  /\ free = [k \in PoolRefs |-> {}]
  /\ txOpen = [kc \in PoolRefs \X Conns |-> FALSE]
  /\ pending = [kc \in PoolRefs \X Conns |-> {}]
  /\ savepoint = [kc \in PoolRefs \X Conns |-> NoSavepoint]
  /\ committed = {}
  /\ task = [p \in Procs |-> IdleTask]

Init ==
  /\ MetricsStart
  /\ ValidatorStart
  /\ HealthStart
  /\ GatewayStart


\* ------------------------------------------------------------ task helpers
Ok == [NoResult EXCEPT !.success = TRUE]

\* the calls of the metrics collector's record operation that an execution
\* ending with result r issues, each with its success argument:
\*   QT  the server's tool wrapper records every result once
\*       (_add_query_history);
\*   QS  QueryService records once after the executor has returned, and not
\*       at all when validation raised;
\*   MY  MySQLQueryExecutor records once per query and per batch, and once
\*       for every statement of a transaction.
RecordCalls(t, r) ==
  CASE t.op \notin {"query", "tx", "batch"} -> <<>>
    [] impl = "QT" -> <<r.success>>
    [] impl = "QS" -> IF r.error_type \in {"QueryError", "SecurityError"} THEN <<>>
                      ELSE <<r.success>>
    [] impl = "MY" -> IF t.op = "tx" THEN [k \in 1..Len(t.queries) |-> r.success]
                      ELSE <<r.success>>

Finish(p, t, r) ==
  [task EXCEPT ![p] = [t EXCEPT !.pc = "done", !.res = r, !.recorded = RecordCalls(t, r)]]

\* a failed result: e names the cause, et is the error_type tag the caller gets
Failed(e, et) == [NoResult EXCEPT !.error = e, !.error_type = et]
\* an exception that leaves the operation
Raised(e) == [NoResult EXCEPT !.error = e, !.error_type = e, !.raised = TRUE]

\* the effects a call of task p can leave in the database; they are told
\* apart from the effects of p's next call by forgetting them at Return
Effects(p) == {p} \X (1..(MaxStmts + 1))

Referenced(k) ==
  \/ \E id \in Ids : pools[id] = k
  \/ \E p \in Procs : task[p].pool = k

Reusable(k) == poolState[k] \in {"unused", "closed"} /\ ~ Referenced(k)

\* asyncpg.create_pool / aiomysql.create_pool: a fresh pool object
NewPool == CHOOSE k \in PoolRefs : Reusable(k) /\ \A j \in PoolRefs : Reusable(j) => k <= j

\* ---------------------------------------------------------------- register
\* port stands for the structural parameters that registration validates
Ports == {0, 5432}
validate_connection_params(port) == 1 <= port /\ port <= 65535

\* ConnectionManager.add_connection / ConnectionService.create_connection /
\* MySQLConnectionPool.create_connection, up to the first connection attempt
AddBegin(p, id, port) ==
  /\ task[p].pc = "idle"
  /\ LET t == [task[p] EXCEPT !.op = "add", !.id = id, !.dup = pools[id] # 0]
     IN CASE impl = "QT" ->
               /\ task' = IF validate_connection_params(port)
                          THEN [task EXCEPT ![p] = [t EXCEPT !.pc = "connect"]]
                          ELSE Finish(p, t, Failed("InvalidParameters", ""))
               /\ UNCHANGED <<connections, lock>>
          [] impl = "QS" ->
               /\ task' = IF validate_connection_params(port)
                          THEN [task EXCEPT ![p] = [t EXCEPT !.pc = "connect"]]
                          ELSE Finish(p, t, Raised("ConnectionError"))
               /\ UNCHANGED <<connections, lock>>
          [] impl = "MY" ->
               /\ lock = 0
               /\ lock' = p
               /\ connections' = [connections EXCEPT ![id] = "active"]
               /\ task' = [task EXCEPT ![p] = [t EXCEPT !.pc = "connect"]]
  /\ UNCHANGED <<impl, pools, poolState, free, txOpen, pending, savepoint, committed>>
  /\ UNCHANGED ovars

\* the backend answers the connection attempt: the pool is created and stored,
\* or the attempt fails
AddFinish(p) ==
  /\ task[p].pc = "connect"
  /\ task[p].op = "add"
  /\ \E reachable \in BOOLEAN :
       LET t == task[p]
           id == t.id
       IN IF reachable
          THEN /\ \E k \in PoolRefs : Reusable(k)
               /\ poolState' = [poolState EXCEPT ![NewPool] = "open"]
               /\ free' = [free EXCEPT ![NewPool] = Conns]
               /\ pools' = [pools EXCEPT ![id] = NewPool]
               /\ connections' = [connections EXCEPT ![id] = "active"]
               /\ lock' = IF impl = "MY" THEN 0 ELSE lock
               /\ task' = Finish(p, t, Ok)
          ELSE /\ task' = Finish(p, t, IF impl = "QT" THEN Failed("BackendUnreachable", "")
                                       ELSE Raised("ConnectionError"))
               /\ lock' = IF impl = "MY" THEN 0 ELSE lock
               /\ UNCHANGED <<poolState, free, pools, connections>>
  /\ UNCHANGED <<impl, txOpen, pending, savepoint, committed>>
  /\ UNCHANGED ovars

\* ------------------------------------------------------------------ remove
\* Pool.close() up to its first suspension: the pool stops handing out
\* connections and the closer waits for the outstanding ones
StartClose(k) == [poolState EXCEPT ![k] = IF @ = "open" THEN "closing" ELSE @]

\* remove_connection / close_connection up to the wait inside pool.close()
RemoveBegin(p, id) ==
  /\ task[p].pc = "idle"
  /\ impl = "MY" => lock = 0
  /\ LET t == [task[p] EXCEPT !.op = "remove", !.id = id]
     IN IF pools[id] = 0
        THEN /\ task' = Finish(p, t, Failed("NotFound", ""))
             /\ UNCHANGED <<poolState, lock>>
        ELSE /\ poolState' = StartClose(pools[id])
             /\ lock' = IF impl = "MY" THEN p ELSE lock
             /\ task' = [task EXCEPT ![p] = [t EXCEPT !.pc = "drain", !.pool = pools[id]]]
  /\ UNCHANGED <<impl, pools, connections, free, txOpen, pending, savepoint, committed>>
  /\ UNCHANGED ovars

Drained(k) == \A q \in Procs : ~ (task[q].pool = k /\ task[q].conn # 0)

\* the registry entries after the statements that follow `await pool.close()`
AfterClosePools(id) ==
  IF pools[id] # 0 THEN [pools EXCEPT ![id] = 0] ELSE pools

AfterCloseConnections(id) ==
  CASE impl = "QT" ->
         IF pools[id] # 0 /\ connections[id] # "none"
         THEN [connections EXCEPT ![id] = "inactive"] ELSE connections
    [] OTHER ->
         IF pools[id] # 0 THEN [connections EXCEPT ![id] = "none"] ELSE connections

AfterCloseResult(id) ==
  IF pools[id] # 0 /\ (impl = "QT" \/ connections[id] # "none")
  THEN Ok ELSE Failed("KeyError", "")

\* pool.close() returns once every checkout has come back; the registry
\* entries are deleted after it
RemoveFinish(p) ==
  /\ task[p].pc = "drain"
  /\ task[p].op = "remove"
  /\ Drained(task[p].pool)
  /\ LET t == task[p]
         id == t.id
         k == t.pool
     IN /\ poolState' = [poolState EXCEPT ![k] = "closed"]
        /\ free' = [free EXCEPT ![k] = {}]
        /\ pools' = AfterClosePools(id)
        /\ connections' = AfterCloseConnections(id)
        /\ lock' = IF impl = "MY" THEN 0 ELSE lock
        /\ task' = Finish(p, [t EXCEPT !.pool = 0], AfterCloseResult(id))
  /\ UNCHANGED <<impl, txOpen, pending, savepoint, committed>>
  /\ UNCHANGED ovars

\* ----------------------------------------------------------------- cleanup
\* cleanup / close_all_connections: snapshot of the registered ids
CleanupBegin(p) ==
  /\ task[p].pc = "idle"
  /\ impl = "MY" => lock = 0
  /\ lock' = IF impl = "MY" THEN p ELSE lock
  /\ task' = [task EXCEPT ![p] = [@ EXCEPT !.op = "cleanup", !.pc = "next",
                                           !.todo = {id \in Ids : pools[id] # 0}]]
  /\ UNCHANGED <<impl, pools, connections, poolState, free, txOpen, pending,
                 savepoint, committed>>
  /\ UNCHANGED ovars

\* one iteration of the loop, up to the wait inside pool.close(); after the
\* last one MySQLConnectionPool.cleanup clears both dictionaries
CleanupNext(p) ==
  /\ task[p].pc = "next"
  /\ LET t == task[p]
     IN IF t.todo = {}
        THEN /\ task' = Finish(p, t, Ok)
             /\ lock' = IF impl = "MY" THEN 0 ELSE lock
             /\ pools' = IF impl = "MY" THEN [id \in Ids |-> 0] ELSE pools
             /\ connections' = IF impl = "MY" THEN [id \in Ids |-> "none"] ELSE connections
             /\ UNCHANGED poolState
        ELSE \E id \in t.todo :
               /\ UNCHANGED <<lock, pools, connections>>
               /\ IF pools[id] = 0
                  THEN /\ task' = [task EXCEPT ![p] = [t EXCEPT !.todo = @ \ {id}]]
                       /\ UNCHANGED poolState
                  ELSE /\ poolState' = StartClose(pools[id])
                       /\ task' = [task EXCEPT ![p] = [t EXCEPT !.todo = @ \ {id}, !.id = id,
                                                       !.pc = "drain", !.pool = pools[id]]]
  /\ UNCHANGED <<impl, free, txOpen, pending, savepoint, committed>>
  /\ UNCHANGED ovars

CleanupFinish(p) ==
  /\ task[p].pc = "drain"
  /\ task[p].op = "cleanup"
  /\ Drained(task[p].pool)
  /\ LET t == task[p]
         id == t.id
         k == t.pool
     IN /\ poolState' = [poolState EXCEPT ![k] = "closed"]
        /\ free' = [free EXCEPT ![k] = {}]
        /\ pools' = IF impl = "MY" THEN pools ELSE AfterClosePools(id)
        /\ connections' = IF impl = "MY" THEN connections ELSE AfterCloseConnections(id)
        /\ task' = [task EXCEPT ![p] = [t EXCEPT !.pc = "next", !.pool = 0, !.id = "-"]]
  /\ UNCHANGED <<impl, lock, txOpen, pending, savepoint, committed>>
  /\ UNCHANGED ovars

\* the caller takes the result; the task can serve the next call
Return(p) ==
  /\ task[p].pc = "done"
  /\ task' = [task EXCEPT ![p] = IdleTask]
  /\ committed' = committed \ Effects(p)
  /\ UNCHANGED <<impl, pools, connections, lock, poolState, free, txOpen, pending,
                 savepoint>>
  /\ UNCHANGED ovars


\* --------------------------------------------------------------- execution
\* RowReturning, but INSERT is let through as well
RowReturningAndInsert == {"SELECT", "WITH", "EXPLAIN", "INSERT"}
\* the statements execute_query and the executors fetch rows for
RowReturning == {"SELECT", "WITH", "EXPLAIN"}
IsWrite(q) == ~ startswith(q, RowReturning \cup {"SHOW", "DESCRIBE"})

\* the driver's error for a checkout from a pool that is closing or closed
\* (asyncpg InterfaceError; aiomysql RuntimeError; ConnectionPool.acquire
\* raises RuntimeError once its _pool is None)
PoolError(k) ==
  IF impl = "MY" \/ (impl = "QT" /\ poolState[k] = "closed")
  THEN "RuntimeError" ELSE "InterfaceError"

\* the result an operation builds in its `except Exception' handler
ExecError(t, e) ==
  CASE t.op = "tx" /\ impl = "QT" -> [Failed(e, "") EXCEPT !.rolled_back = TRUE]
    [] t.op = "tx" /\ impl = "MY" -> [Failed(e, e) EXCEPT !.rolled_back = TRUE]
    [] t.op = "txsp" -> [Failed(e, "") EXCEPT !.rolled_back = TRUE]
    [] t.op \in {"query", "batch"} /\ impl = "MY" -> Failed(e, e)
    [] OTHER -> Failed(e, "")

FirstPc(t) ==
  CASE t.op = "tx" -> IF Len(t.queries) = 0 THEN "commit" ELSE "stmt"
    [] t.op = "txsp" -> IF Len(t.queries) = 0 THEN "commit" ELSE "sp"
    [] OTHER -> "exec"

\* Take, but the connection stays among the idle ones
TakeShared(p, t, k, c) ==
  /\ free' = free
  /\ txOpen' = [txOpen EXCEPT ![<<k, c>>] = t.op \in {"tx", "txsp"}]
  /\ task' = [task EXCEPT ![p] = [t EXCEPT !.pool = k, !.conn = c, !.i = 1,
                                           !.checkouts = @ + 1, !.pc = FirstPc(t)]]

\* the pool hands connection c to task p; conn.transaction() / conn.begin()
\* opens the transaction of a transactional operation
Take(p, t, k, c) ==
  /\ free' = [free EXCEPT ![k] = @ \ {c}]
  /\ txOpen' = [txOpen EXCEPT ![<<k, c>>] = t.op \in {"tx", "txsp"}]
  /\ task' = [task EXCEPT ![p] = [t EXCEPT !.pool = k, !.conn = c, !.i = 1,
                                           !.checkouts = @ + 1, !.pc = FirstPc(t)]]

\* pool.acquire(): refused by a pool that is closing, served from the idle
\* connections, or the caller waits
Checkout(p, t, k) ==
  IF poolState[k] # "open"
  THEN /\ task' = Finish(p, t, ExecError(t, PoolError(k)))
       /\ UNCHANGED <<free, txOpen>>
  ELSE IF free[k] = {}
  THEN /\ task' = [task EXCEPT ![p] = [t EXCEPT !.pc = "acquire", !.pool = k]]
       /\ UNCHANGED <<free, txOpen>>
  ELSE \E c \in free[k] : Take(p, t, k, c)

\* a waiting caller is served when a connection has come back; a waiter that
\* finds the pool closing gives up with the driver's error
Acquire(p) ==
  /\ task[p].pc = "acquire"
  /\ LET t == task[p]
         k == t.pool
     IN IF poolState[k] # "open"
        THEN /\ task' = Finish(p, [t EXCEPT !.pool = 0], ExecError(t, PoolError(k)))
             /\ UNCHANGED <<free, txOpen>>
        ELSE /\ free[k] # {}
             /\ \E c \in free[k] : Take(p, t, k, c)
  /\ UNCHANGED <<impl, pools, connections, lock, poolState, pending, savepoint, committed>>
  /\ UNCHANGED ovars

\* the part of an entry point that runs before the checkout has no effect on
\* the registry, the pools or the database
BeginFrame ==
  /\ committed' = committed
  /\ UNCHANGED ovars
  /\ UNCHANGED <<impl, pools, connections, lock, poolState, pending, savepoint>>

\* the statements of `queries' that the validator of this variant accepts,
\* in call order up to the first rejection
RECURSIVE AcceptedPrefix(_, _)
AcceptedPrefix(queries, n) ==
  IF n = 0 THEN {}
  ELSE IF AcceptedPrefix(queries, n - 1) = 1..(n - 1)
          /\ (IF impl = "QT" THEN validate_query(queries[n]) = ""
              ELSE validate_query_structure(queries[n]) /\ PGvalidate_query(queries[n]))
       THEN 1..n
       ELSE AcceptedPrefix(queries, n - 1)

\* QueryTool.execute_query / QueryHandler.execute_query /
\* MySQLQueryExecutor.execute_query up to the checkout
QueryBegin(p, id, q) ==
  /\ task[p].pc = "idle"
  /\ LET t0 == [task[p] EXCEPT !.op = "query", !.id = id, !.queries = <<q>>]
     IN CASE impl = "QT" ->
               LET t == [t0 EXCEPT !.accepted = AcceptedPrefix(<<q>>, 1)]
               IN IF validate_query(q) # ""
                  THEN task' = Finish(p, t, Failed(validate_query(q), "")) /\ UNCHANGED <<free, txOpen>>
                  ELSE IF pools[id] = 0
                  THEN task' = Finish(p, t, Failed("NotFound", "")) /\ UNCHANGED <<free, txOpen>>
                  ELSE IF ~ startswith(q, RowReturning)
                  THEN task' = Finish(p, t, Failed("NotSelect", "")) /\ UNCHANGED <<free, txOpen>>
                  ELSE Checkout(p, t, pools[id])
          [] impl = "QS" ->
               LET t == [t0 EXCEPT !.accepted = AcceptedPrefix(<<q>>, 1)]
               IN IF ~ validate_query_structure(q)
                  THEN task' = Finish(p, t, Failed("InvalidStructure", "QueryError")) /\ UNCHANGED <<free, txOpen>>
                  ELSE IF ~ PGvalidate_query(q)
                  THEN task' = Finish(p, t, Failed("Rejected", "SecurityError")) /\ UNCHANGED <<free, txOpen>>
                  ELSE IF pools[id] = 0
                  THEN task' = Finish(p, t, Failed("NotFound", "")) /\ UNCHANGED <<free, txOpen>>
                  ELSE Checkout(p, t, pools[id])
          [] impl = "MY" ->
               IF pools[id] = 0
               THEN task' = Finish(p, t0, Failed("NotFound", "ConnectionError")) /\ UNCHANGED <<free, txOpen>>
               ELSE Checkout(p, t0, pools[id])
  /\ BeginFrame

\* TransactionBegin, but a statement is validated only when its turn comes
TransactionBeginLazy(p, id, queries, foe) ==
  /\ task[p].pc = "idle"
  /\ LET t0 == [task[p] EXCEPT !.op = "tx", !.id = id, !.queries = queries,
                               !.fail_on_error = foe]
         acc == AcceptedPrefix(queries, Len(queries))
     IN CASE impl \in {"QT", "QS"} ->
               LET t == [t0 EXCEPT !.accepted = acc]
               IN IF acc = {} /\ Len(queries) > 0
                  THEN task' = Finish(p, t, Failed("Rejected", "")) /\ UNCHANGED <<free, txOpen>>
                  ELSE IF pools[id] = 0
                  THEN task' = Finish(p, t, Failed("NotFound", "")) /\ UNCHANGED <<free, txOpen>>
                  ELSE Checkout(p, t, pools[id])
          [] impl = "MY" ->
               IF pools[id] = 0
               THEN task' = Finish(p, t0, [Failed("NotFound", "ConnectionError")
                                            EXCEPT !.rolled_back = TRUE])
                    /\ UNCHANGED <<free, txOpen>>
               ELSE Checkout(p, t0, pools[id])
  /\ BeginFrame

\* execute_transaction up to the checkout and the start of the transaction
TransactionBegin(p, id, queries, foe) ==
  /\ task[p].pc = "idle"
  /\ LET t0 == [task[p] EXCEPT !.op = "tx", !.id = id, !.queries = queries,
                               !.fail_on_error = foe]
         acc == AcceptedPrefix(queries, Len(queries))
     IN CASE impl = "QT" ->
               LET t == [t0 EXCEPT !.accepted = acc]
               IN IF acc # 1..Len(queries)
                  THEN task' = Finish(p, t, Failed("Rejected", "")) /\ UNCHANGED <<free, txOpen>>
                  ELSE IF pools[id] = 0
                  THEN task' = Finish(p, t, Failed("NotFound", "")) /\ UNCHANGED <<free, txOpen>>
                  ELSE Checkout(p, t, pools[id])
          [] impl = "QS" ->
               LET t == [t0 EXCEPT !.accepted = acc]
               IN IF acc # 1..Len(queries)
                  THEN task' = Finish(p, t,
                                 IF validate_query_structure(queries[Cardinality(acc) + 1])
                                 THEN Failed("Rejected", "SecurityError")
                                 ELSE Failed("InvalidStructure", "QueryError"))
                       /\ UNCHANGED <<free, txOpen>>
                  ELSE IF pools[id] = 0
                  THEN task' = Finish(p, t, Failed("NotFound", "")) /\ UNCHANGED <<free, txOpen>>
                  ELSE Checkout(p, t, pools[id])
          [] impl = "MY" ->
               IF pools[id] = 0
               THEN task' = Finish(p, t0, [Failed("NotFound", "ConnectionError")
                                            EXCEPT !.rolled_back = TRUE])
                    /\ UNCHANGED <<free, txOpen>>
               ELSE Checkout(p, t0, pools[id])
  /\ BeginFrame

\* batch_execute / execute_batch up to the checkout
BatchBegin(p, id, q, n) ==
  /\ task[p].pc = "idle"
  /\ LET t0 == [task[p] EXCEPT !.op = "batch", !.id = id, !.queries = <<q>>,
                               !.batch_size = n]
     IN CASE impl = "QT" ->
               LET t == [t0 EXCEPT !.accepted = AcceptedPrefix(<<q>>, 1)]
               IN IF validate_query(q) # ""
                  THEN task' = Finish(p, t, Failed(validate_query(q), "")) /\ UNCHANGED <<free, txOpen>>
                  ELSE IF pools[id] = 0
                  THEN task' = Finish(p, t, Failed("NotFound", "")) /\ UNCHANGED <<free, txOpen>>
                  ELSE Checkout(p, t, pools[id])
          [] impl = "QS" ->
               LET t == [t0 EXCEPT !.accepted =
                              IF Len(q) > 0 /\ PGvalidate_query(q) THEN {1} ELSE {}]
               IN IF Len(q) = 0
                  THEN task' = Finish(p, t, Failed("InvalidStructure", "QueryError")) /\ UNCHANGED <<free, txOpen>>
                  ELSE IF ~ PGvalidate_query(q)
                  THEN task' = Finish(p, t, Failed("Rejected", "SecurityError")) /\ UNCHANGED <<free, txOpen>>
                  ELSE IF pools[id] = 0
                  THEN task' = Finish(p, t, Failed("NotFound", "")) /\ UNCHANGED <<free, txOpen>>
                  ELSE Checkout(p, t, pools[id])
          [] impl = "MY" ->
               IF pools[id] = 0
               THEN task' = Finish(p, t0, Failed("NotFound", "ConnectionError")) /\ UNCHANGED <<free, txOpen>>
               ELSE Checkout(p, t0, pools[id])
  /\ BeginFrame

\* TestBegin, but the lookup of an unknown id raises
TestBeginRaises(p, id) ==
  /\ task[p].pc = "idle"
  /\ LET t == [task[p] EXCEPT !.op = "test", !.id = id]
     IN IF pools[id] = 0
        THEN task' = Finish(p, t, Raised("KeyError")) /\ UNCHANGED <<free, txOpen>>
        ELSE Checkout(p, t, pools[id])
  /\ BeginFrame

\* test_connection up to the checkout
TestBegin(p, id) ==
  /\ task[p].pc = "idle"
  /\ LET t == [task[p] EXCEPT !.op = "test", !.id = id]
     IN IF pools[id] = 0
        THEN task' = Finish(p, t, Failed("NotFound", "")) /\ UNCHANGED <<free, txOpen>>
        ELSE Checkout(p, t, pools[id])
  /\ BeginFrame

\* SQLExecutor.execute_transaction_with_savepoints on the pool registered
\* under id, up to the checkout and the start of the transaction
SavepointsBegin(p, id, queries, foe) ==
  /\ task[p].pc = "idle"
  /\ impl = "QT"
  /\ pools[id] # 0
  /\ Checkout(p, [task[p] EXCEPT !.op = "txsp", !.id = id, !.queries = queries,
                                 !.fail_on_error = foe],
              pools[id])
  /\ BeginFrame


\* ------------------------------------------------- steps on the connection
Held(t) == <<t.pool, t.conn>>

\* the single round trip of execute_query, of a batch (executemany) and of
\* test_connection (SELECT 1); the backend answers or raises.  asyncpg runs
\* in autocommit mode; the aiomysql pools are created with autocommit=False,
\* so a statement can leave an implicit transaction open (opens) unless the
\* code commits.
Exec(p) ==
  /\ task[p].pc = "exec"
  /\ \E ok \in BOOLEAN, opens \in BOOLEAN :
       LET t == task[p]
           write == t.op # "test" /\ IsWrite(t.queries[1]) /\ t.queries[1] # SqlEmpty
                    /\ (t.op = "batch" => t.batch_size > 0)
           res == IF ok THEN Ok ELSE ExecError(t, "QueryFailed")
           t1 == [t EXCEPT !.pc = "release", !.res = res,
                           !.dispatched = IF t.op = "test" THEN @ ELSE Append(@, 1)]
       IN /\ task' = [task EXCEPT ![p] = t1]
          /\ IF impl = "MY" /\ t.op # "test"
             THEN IF ok /\ (write \/ t.op = "batch")
                  THEN \* conn.commit()
                       /\ committed' = IF write THEN committed \cup {<<p, 1>>} ELSE committed
                       /\ UNCHANGED <<txOpen, pending>>
                  ELSE /\ txOpen' = [txOpen EXCEPT ![Held(t)] = opens]
                       /\ pending' = [pending EXCEPT ![Held(t)] =
                                        IF opens /\ write /\ t.op = "batch" /\ t.batch_size > 1
                                        THEN {<<p, 1>>} ELSE {}]
                       /\ UNCHANGED committed
             ELSE /\ committed' = IF ok /\ write THEN committed \cup {<<p, 1>>} ELSE committed
                  /\ UNCHANGED <<txOpen, pending>>
  /\ UNCHANGED <<impl, pools, connections, lock, poolState, free, savepoint>>
  /\ UNCHANGED ovars

NextPc(t) ==
  IF t.i = Len(t.queries) THEN "commit"
  ELSE IF t.op = "txsp" THEN "sp" ELSE "stmt"

\* SAVEPOINT sp_i
Savepoint(p) ==
  /\ task[p].pc = "sp"
  /\ savepoint' = [savepoint EXCEPT ![Held(task[p])] = pending[Held(task[p])]]
  /\ task' = [task EXCEPT ![p] = [@ EXCEPT !.pc = "stmt"]]
  /\ UNCHANGED <<impl, pools, connections, lock, poolState, free, txOpen, pending, committed>>
  /\ UNCHANGED ovars

\* Statement, but the list is walked from its end
StatementReversed(p) ==
  /\ task[p].pc = "stmt"
  /\ \E ok \in BOOLEAN, partial \in BOOLEAN :
       LET t == task[p]
           i == t.i
           j == Len(t.queries) + 1 - i
           t1 == [t EXCEPT !.dispatched = Append(@, j)]
       IN IF ok
          THEN /\ pending' = [pending EXCEPT ![Held(t)] =
                                IF IsWrite(t.queries[j]) THEN @ \cup {<<p, i>>} ELSE @]
               /\ savepoint' = [savepoint EXCEPT ![Held(t)] = NoSavepoint]
               /\ task' = [task EXCEPT ![p] = [t1 EXCEPT !.results = Append(@, TRUE),
                                                         !.i = i + 1, !.pc = NextPc(t)]]
          ELSE /\ pending' = [pending EXCEPT ![Held(t)] =
                                IF partial /\ IsWrite(t.queries[j]) THEN @ \cup {<<p, i>>} ELSE @]
               /\ UNCHANGED savepoint
               /\ task' = [task EXCEPT ![p] =
                             IF t.op = "txsp" THEN [t1 EXCEPT !.pc = "rbsp", !.failed = TRUE]
                             ELSE [t1 EXCEPT !.pc = "abort", !.failed = TRUE,
                                             !.results = IF impl = "QT" THEN Append(@, FALSE) ELSE @]]
  /\ UNCHANGED <<impl, pools, connections, lock, poolState, free, txOpen, committed>>
  /\ UNCHANGED ovars

\* statement i of a transaction is sent on the held connection; on success
\* its result is appended (and the savepoint released), on failure the
\* exception handler of the statement takes over.  What a failed statement
\* changed before it failed (partial) stays in the transaction until a
\* rollback removes it.
Statement(p) ==
  /\ task[p].pc = "stmt"
  /\ \E ok \in BOOLEAN, partial \in BOOLEAN :
       LET t == task[p]
           i == t.i
           t1 == [t EXCEPT !.dispatched = Append(@, i)]
       IN IF ok
          THEN /\ pending' = [pending EXCEPT ![Held(t)] =
                                IF IsWrite(t.queries[i]) THEN @ \cup {<<p, i>>} ELSE @]
               /\ savepoint' = [savepoint EXCEPT ![Held(t)] = NoSavepoint]
               /\ task' = [task EXCEPT ![p] = [t1 EXCEPT !.results = Append(@, TRUE),
                                                         !.i = i + 1, !.pc = NextPc(t)]]
          ELSE /\ pending' = [pending EXCEPT ![Held(t)] =
                                IF partial /\ IsWrite(t.queries[i]) THEN @ \cup {<<p, i>>} ELSE @]
               /\ UNCHANGED savepoint
               /\ task' = [task EXCEPT ![p] =
                             IF t.op = "txsp" THEN [t1 EXCEPT !.pc = "rbsp", !.failed = TRUE]
                             ELSE [t1 EXCEPT !.pc = "abort", !.failed = TRUE,
                                             !.results = IF impl = "QT" THEN Append(@, FALSE) ELSE @]]
  /\ UNCHANGED <<impl, pools, connections, lock, poolState, free, txOpen, committed>>
  /\ UNCHANGED ovars

\* SavepointRollback, but the rollback is not limited to the savepoint
SavepointRollbackAll(p) ==
  /\ task[p].pc = "rbsp"
  /\ LET t == task[p]
     IN /\ pending' = [pending EXCEPT ![Held(t)] = {}]
        /\ task' = [task EXCEPT ![p] =
                      IF t.fail_on_error[t.i]
                      THEN [t EXCEPT !.results = Append(@, FALSE), !.pc = "abort"]
                      ELSE [t EXCEPT !.results = Append(@, FALSE), !.i = t.i + 1,
                                     !.pc = NextPc(t)]]
  /\ UNCHANGED <<impl, pools, connections, lock, poolState, free, txOpen, savepoint, committed>>
  /\ UNCHANGED ovars

\* ROLLBACK TO SAVEPOINT sp_i, the failure entry, and the fail_on_error test
SavepointRollback(p) ==
  /\ task[p].pc = "rbsp"
  /\ LET t == task[p]
     IN /\ pending' = [pending EXCEPT ![Held(t)] = savepoint[Held(t)]]
        /\ task' = [task EXCEPT ![p] =
                      IF t.fail_on_error[t.i]
                      THEN [t EXCEPT !.results = Append(@, FALSE), !.pc = "abort"]
                      ELSE [t EXCEPT !.results = Append(@, FALSE), !.i = t.i + 1,
                                     !.pc = NextPc(t)]]
  /\ UNCHANGED <<impl, pools, connections, lock, poolState, free, txOpen, savepoint, committed>>
  /\ UNCHANGED ovars

\* the transaction block ends normally: COMMIT, and the success result
Commit(p) ==
  /\ task[p].pc = "commit"
  /\ LET t == task[p]
     IN /\ committed' = committed \cup pending[Held(t)]
        /\ pending' = [pending EXCEPT ![Held(t)] = {}]
        /\ savepoint' = [savepoint EXCEPT ![Held(t)] = NoSavepoint]
        /\ txOpen' = [txOpen EXCEPT ![Held(t)] = FALSE]
        /\ task' = [task EXCEPT ![p] =
                      [t EXCEPT !.pc = "release", !.res = Ok,
                                !.recorded = IF impl = "MY" /\ t.op = "tx"
                                             THEN RecordCalls(t, Ok) ELSE @]]
  /\ UNCHANGED <<impl, pools, connections, lock, poolState, free>>
  /\ UNCHANGED ovars

\* Abort, but the work done so far is committed
AbortCommits(p) ==
  /\ task[p].pc = "abort"
  /\ LET t == task[p]
     IN /\ pending' = [pending EXCEPT ![Held(t)] = {}]
        /\ savepoint' = [savepoint EXCEPT ![Held(t)] = NoSavepoint]
        /\ txOpen' = [txOpen EXCEPT ![Held(t)] = FALSE]
        /\ committed' = committed \cup pending[Held(t)]
        /\ task' = [task EXCEPT ![p] =
                      [t EXCEPT !.pc = "release",
                                !.res = ExecError(t, IF impl = "MY" THEN "TransactionError"
                                                     ELSE "QueryFailed")]]
  /\ UNCHANGED <<impl, pools, connections, lock, poolState, free>>
  /\ UNCHANGED ovars

\* an exception leaves the transaction block: ROLLBACK, and the failure result
Abort(p) ==
  /\ task[p].pc = "abort"
  /\ LET t == task[p]
     IN /\ pending' = [pending EXCEPT ![Held(t)] = {}]
        /\ savepoint' = [savepoint EXCEPT ![Held(t)] = NoSavepoint]
        /\ txOpen' = [txOpen EXCEPT ![Held(t)] = FALSE]
        /\ task' = [task EXCEPT ![p] =
                      [t EXCEPT !.pc = "release",
                                !.res = ExecError(t, IF impl = "MY" THEN "TransactionError"
                                                     ELSE "QueryFailed")]]
  /\ UNCHANGED <<impl, pools, connections, lock, poolState, free, committed>>
  /\ UNCHANGED ovars

\* asyncio.timeout() expires while execute_transaction_with_savepoints is
\* suspended: the cancellation unwinds the transaction block (ROLLBACK) and
\* TimeoutError is re-raised to the caller
Timeout(p) ==
  /\ task[p].op = "txsp"
  /\ task[p].pc \in {"acquire", "sp", "stmt", "rbsp"}
  /\ LET t == task[p]
     IN IF t.conn = 0
        THEN /\ task' = Finish(p, [t EXCEPT !.pool = 0], Raised("TimeoutError"))
             /\ UNCHANGED <<pending, savepoint, txOpen>>
        ELSE /\ pending' = [pending EXCEPT ![Held(t)] = {}]
             /\ savepoint' = [savepoint EXCEPT ![Held(t)] = NoSavepoint]
             /\ txOpen' = [txOpen EXCEPT ![Held(t)] = FALSE]
             /\ task' = [task EXCEPT ![p] = [t EXCEPT !.pc = "release",
                                                      !.res = Raised("TimeoutError")]]
  /\ UNCHANGED <<impl, pools, connections, lock, poolState, free, committed>>
  /\ UNCHANGED ovars

\* the `async with' block of the checkout ends: the connection goes back to
\* the pool.  The drivers do not hand on a connection in a transaction: asyncpg
\* resets it, aiomysql closes it and opens a new one for the next caller.
Release(p) ==
  /\ task[p].pc = "release"
  /\ LET t == task[p]
     IN /\ free' = [free EXCEPT ![t.pool] = @ \cup {t.conn}]
        /\ txOpen' = [txOpen EXCEPT ![Held(t)] = FALSE]
        /\ pending' = [pending EXCEPT ![Held(t)] = {}]
        /\ savepoint' = [savepoint EXCEPT ![Held(t)] = NoSavepoint]
        /\ task' = [task EXCEPT ![p] =
                      [t EXCEPT !.pc = "done", !.pool = 0, !.conn = 0,
                                !.returns = @ + 1,
                                !.recorded = IF impl = "MY" /\ t.op = "tx" /\ t.res.success
                                             THEN @ ELSE RecordCalls(t, t.res)]]
  /\ UNCHANGED <<impl, pools, connections, lock, poolState, committed>>
  /\ UNCHANGED ovars

\* the batch_size and the affected-row count in the result of a batch that
\* ended with t.res (reported: the result has these fields at all):
\*   QT  BatchResult(batch_size=len(params_list), total_affected_rows=
\*       len(params_list) on success and 0 on every failure)
\*   QS  the handler's dict: batch_size len(params_list), rows_affected the
\*       executor's row_count (len(params_list), 0 when it failed)
\*   MY  on success batch_size len(params_list) and the cursor's rowcount
\*       (-1 while nothing was executed on the cursor); the failure dict
\*       has success, error and error_type only
BatchReport(t) ==
  CASE impl \in {"QT", "QS"} ->
         [reported |-> TRUE, batch_size |-> t.batch_size,
          rows_affected |-> IF t.res.success THEN t.batch_size ELSE 0]
    [] impl = "MY" /\ t.res.success ->
         [reported |-> TRUE, batch_size |-> t.batch_size,
          rows_affected |-> IF t.batch_size = 0 THEN -1 ELSE t.batch_size]
    [] OTHER -> [reported |-> FALSE, batch_size |-> 0, rows_affected |-> 0]

\* -------------------------------------------------------------- the system
TxSQL == {SqlInsert, SqlDrop}
SpSQL == {SqlInsert}
Flags(n) == [1..n -> BOOLEAN]
Uniform(n) == {[k \in 1..n |-> b] : b \in BOOLEAN}

Next ==
  \/ \E p \in Procs, id \in Ids, port \in Ports : AddBegin(p, id, port)
  \/ \E p \in Procs : AddFinish(p)
  \/ \E p \in Procs, id \in Ids : RemoveBegin(p, id)
  \/ \E p \in Procs : RemoveFinish(p)
  \/ \E p \in Procs : CleanupBegin(p)
  \/ \E p \in Procs : CleanupNext(p)
  \/ \E p \in Procs : CleanupFinish(p)
  \/ \E p \in Procs, id \in Ids, q \in SQL \cup {SqlEmpty} : QueryBegin(p, id, q)
  \/ \E p \in Heavy, id \in Ids, queries \in SeqsUpTo(TxSQL, MaxStmts) :
       \E foe \in Uniform(Len(queries)) : TransactionBegin(p, id, queries, foe)
  \/ \E p \in Heavy, id \in Ids, q \in SQL, n \in 0..MaxBatch : BatchBegin(p, id, q, n)
  \/ \E p \in Procs, id \in Ids : TestBegin(p, id)
  \/ \E p \in Heavy, id \in Ids, queries \in SeqsUpTo(SpSQL, MaxStmts) :
       \E foe \in Flags(Len(queries)) : SavepointsBegin(p, id, queries, foe)
  \/ \E p \in Procs : Acquire(p)
  \/ \E p \in Procs : Exec(p)
  \/ \E p \in Procs : Savepoint(p)
  \/ \E p \in Procs : Statement(p)
  \/ \E p \in Procs : SavepointRollback(p)
  \/ \E p \in Procs : Commit(p)
  \/ \E p \in Procs : Abort(p)
  \/ \E p \in Procs : Timeout(p)
  \/ \E p \in Procs : Release(p)
  \/ \E p \in Procs : Return(p)

Spec == Init /\ [][Next]_vars

\* Spec with the scheduling the code can rely on: the event loop runs every
\* coroutine that is ready, and the pool's queue wakes its waiters in turn
\* (Acquire is strongly fair).  A round trip is certain to end only where the
\* pool is created with a command timeout, which is the QT variant
\* (command_timeout=30); the other two set no timeout on statements.
LiveSpec ==
  /\ Spec
  /\ \A p \in Procs :
       /\ SF_vars(Acquire(p))
       /\ WF_vars(Release(p))
       /\ WF_vars(Commit(p))
       /\ WF_vars(Abort(p))
       /\ WF_vars(Savepoint(p))
       /\ WF_vars(SavepointRollback(p))
       /\ WF_vars(impl = "QT" /\ (Exec(p) \/ Statement(p)))

TypeOK ==
  /\ impl \in Impls
  /\ pools \in [Ids -> 0..MaxPools]
  /\ connections \in [Ids -> {"none", "active", "inactive"}]
  /\ lock \in Procs \cup {0}
  /\ poolState \in [PoolRefs -> {"unused", "open", "closing", "closed"}]
  /\ \A k \in PoolRefs : free[k] \subseteq Conns
  /\ \A p \in Procs : task[p].pool \in 0..MaxPools /\ task[p].conn \in 0..MaxSize


\* ------------------------------------------------------- metrics collector
\* The gateway reaches the collector only through record calls (RecordCalls
\* above gives the calls of each execution).  MetricsSpec follows the
\* collector itself under every sequence of record and reset calls:
\*   QT  monitoring.py MetricsCollector, with the tool wrapper's list of
\*       recent records; it has no reset
\*   QS  infrastructure/monitoring InMemoryMetricsCollector
\*   MY  mysql_mcp MySQLMetricsCollector
\* Latencies are whole milliseconds; an average is an exact fraction
\* <<numerator, denominator>> in lowest terms (floating-point rounding is
\* left out).
MaxRecords == 3
MaxLatency == 2
\* capacity of the list of recent records (max_history; the code's values are
\* 1000 and 100), scaled down so that records are dropped
max_history == 2

Latencies == 0..MaxLatency

RECURSIVE GCD(_, _)
GCD(a, b) == IF b = 0 THEN a ELSE GCD(b, a % b)

Norm(f) ==
  IF f[1] = 0 THEN <<0, 1>>
  ELSE <<f[1] \div GCD(f[1], f[2]), f[2] \div GCD(f[1], f[2])>>

\* counted, but the update of a caller that read the counters before another
\* caller's update overwrites that update: the second record is lost
countedStale(m, success) ==
  IF m.total_queries = 1 THEN m
  ELSE [m EXCEPT !.total_queries = @ + 1,
                 !.successful_queries = IF success THEN @ + 1 ELSE @,
                 !.failed_queries = IF success THEN @ ELSE @ + 1]

\* counters update without the failed branch
countedSuccessOnly(m, success) ==
  [m EXCEPT !.total_queries = @ + 1,
            !.successful_queries = IF success THEN @ + 1 ELSE @]

\* total_queries += 1, then successful_queries or failed_queries += 1
counted(m, success) ==
  [m EXCEPT !.total_queries = @ + 1,
            !.successful_queries = IF success THEN @ + 1 ELSE @,
            !.failed_queries = IF success THEN @ ELSE @ + 1]

\* the running average weighted with n instead of n - 1
running_average_n(old_avg, n, execution_time_ms) ==
  Norm(<<old_avg[1] * n + execution_time_ms * old_avg[2], old_avg[2] * n>>)

\* total_time = average * (n - 1) + execution_time_ms; average = total_time / n,
\* n being the count after the increment
running_average(old_avg, n, execution_time_ms) ==
  Norm(<<old_avg[1] * (n - 1) + execution_time_ms * old_avg[2], old_avg[2] * n>>)

\* append without a limit
append_unbounded(history, entry) == Append(history, entry)

\* append, then drop the oldest record when the capacity is exceeded
\* (deque(maxlen), pop(0), [-1000:])
append_bounded(history, entry) ==
  IF Len(history) + 1 > max_history THEN Tail(Append(history, entry))
  ELSE Append(history, entry)

\* record_query / record_query_execution(connection_id, execution_time_ms,
\* success); for QT the tool wrapper's _add_query_history, which calls
\* record_query
Record(id, execution_time_ms, success) ==
  /\ Len(record_log) < MaxRecords
  /\ global_metrics.total_queries < MaxRecords
  /\ LET entry == [connection_id |-> id, execution_time_ms |-> execution_time_ms,
                   success |-> success]
         m == counted(connection_metrics[id], success)
         g == counted(global_metrics, success)
     IN /\ record_log' = Append(record_log, entry)
        /\ CASE impl = "QT" ->
                  /\ query_history' = append_bounded(query_history, entry)
                  /\ connection_metrics' =
                       [connection_metrics EXCEPT ![id] =
                          [m EXCEPT !.total_execution_time_ms = @ + execution_time_ms]]
                  /\ UNCHANGED global_metrics
             [] impl = "QS" ->
                  /\ connection_metrics' =
                       [connection_metrics EXCEPT ![id] =
                          [m EXCEPT !.total_execution_time_ms = @ + execution_time_ms,
                                    !.query_history = append_bounded(@, entry)]]
                  /\ global_metrics' =
                       [g EXCEPT !.total_execution_time_ms = @ + execution_time_ms]
                  /\ UNCHANGED query_history
             [] impl = "MY" ->
                  /\ connection_metrics' =
                       [connection_metrics EXCEPT ![id] =
                          [m EXCEPT !.average_execution_time_ms =
                                      running_average(@, m.total_queries, execution_time_ms),
                                    !.query_history = append_bounded(@, entry)]]
                  /\ global_metrics' =
                       [g EXCEPT !.total_execution_time_ms = @ + execution_time_ms]
                  /\ UNCHANGED query_history
  /\ UNCHANGED <<gvars, svars, hvars>>

\* ResetConnection, but the metrics of every id start again
ResetConnectionClearsAll(id) ==
  /\ impl \in {"QS", "MY"}
  /\ connection_metrics' = [k \in MetricKeys |-> ZeroMetrics]
  /\ record_log' = <<>>
  /\ UNCHANGED <<global_metrics, query_history>>
  /\ UNCHANGED <<gvars, svars, hvars>>

\* reset_metrics(connection_id): the metrics of that id start again; the
\* global counters are not touched
ResetConnection(id) ==
  /\ impl \in {"QS", "MY"}
  /\ connection_metrics' = [connection_metrics EXCEPT ![id] = ZeroMetrics]
  /\ record_log' = SelectSeq(record_log, LAMBDA e : e.connection_id # id)
  /\ UNCHANGED <<global_metrics, query_history>>
  /\ UNCHANGED <<gvars, svars, hvars>>

\* reset_metrics(): everything starts again
ResetAll ==
  /\ impl \in {"QS", "MY"}
  /\ connection_metrics' = [id \in MetricKeys |-> ZeroMetrics]
  /\ global_metrics' = ZeroGlobal
  /\ record_log' = <<>>
  /\ UNCHANGED query_history
  /\ UNCHANGED <<gvars, svars, hvars>>

\* the ids a reader of the metrics gets per-connection numbers for:
\* get_server_metrics walks the registered connections, the other two
\* collectors their own dictionaries
MetricIds == IF impl = "QT" THEN {id \in Ids : connections[id] # "none"} ELSE MetricKeys

RECURSIVE SumOver(_, _)
SumOver(S, field) ==
  IF S = {} THEN 0
  ELSE LET x == CHOOSE y \in S : TRUE
       IN connection_metrics[x][field] + SumOver(S \ {x}, field)

\* get_global_metrics / get_server_metrics: the global counters
get_global_metrics ==
  IF impl = "QT"
  THEN [total_queries |-> SumOver(MetricIds, "total_queries"),
        successful_queries |-> SumOver(MetricIds, "successful_queries"),
        failed_queries |-> SumOver(MetricIds, "failed_queries")]
  ELSE [total_queries |-> global_metrics.total_queries,
        successful_queries |-> global_metrics.successful_queries,
        failed_queries |-> global_metrics.failed_queries]

\* the average a reader gets for id: the stored running average (MY),
\* total / count (QT), int(total / count) (QS)
get_average(id) ==
  LET m == connection_metrics[id]
  IN CASE impl = "MY" -> m.average_execution_time_ms
       [] m.total_queries = 0 -> <<0, 1>>
       [] impl = "QT" -> Norm(<<m.total_execution_time_ms, m.total_queries>>)
       [] OTHER -> Norm(<<m.total_execution_time_ms \div m.total_queries, 1>>)

\* the recent records a reader gets for id
get_history(id) ==
  IF impl = "QT" THEN query_history ELSE connection_metrics[id].query_history

\* a collector at start, next to a registry that is empty or holds the id
MetricsInit ==
  /\ Init
  \/ /\ MetricsStart
     /\ ValidatorStart
     /\ HealthStart
     /\ impl \in Impls
     /\ pools = [id \in Ids |-> 1]
     /\ connections = [id \in Ids |-> "active"]
     /\ lock = 0
     /\ poolState = [k \in PoolRefs |-> IF k = 1 THEN "open" ELSE "unused"]
     /\ free = [k \in PoolRefs |-> IF k = 1 THEN Conns ELSE {}]
     /\ txOpen = [kc \in PoolRefs \X Conns |-> FALSE]
     /\ pending = [kc \in PoolRefs \X Conns |-> {}]
     /\ savepoint = [kc \in PoolRefs \X Conns |-> NoSavepoint]
     /\ committed = {}
     /\ task = [p \in Procs |-> IdleTask]

MetricsNext ==
  \/ \E id \in MetricKeys, execution_time_ms \in Latencies, success \in BOOLEAN :
       Record(id, execution_time_ms, success)
  \/ \E id \in MetricKeys : ResetConnection(id)
  \/ ResetAll

MetricsSpec == MetricsInit /\ [][MetricsNext]_vars


\* ------------------------------------------------------ security validator
\* ValidatorSpec applies SecurityValidator.validate_query to statement texts
\* under the configurations below: a statement is picked, comments are put
\* into it, white space is appended to it, and it is validated.
MaxLength == 24
MaxComments == 1

RawSelect == <<"SELECT", " ", "1">>
RawInsert == <<"INSERT", " ", "INTO", " ", "t">>
RawDrop == <<"DROP", " ", "TABLE", " ", "users">>
\* the same text, the keyword in two pieces
RawDropSplit == <<"DR", "OP", " ", "TABLE", " ", "users">>
RawCreate == <<"CREATE", " ", "TABLE", " ", "t">>
RawDelete == <<"DELETE", " ", "FROM", " ", "t">>
RawDeleteWhere == <<"DELETE", " ", "FROM", " ", "t", " ", "WHERE", " ", "x">>
RawUpdateWhere == <<"UPDATE", " ", "t", " ", "SET", " ", "x", " ", "WHERE", " ", "y">>
RawWith == <<"WITH", " ", "a">>
RawExplain == <<"EXPLAIN", " ", "SELECT", " ", "1">>
Statements ==
  {SqlEmpty, RawSelect, RawInsert, RawDrop, RawDropSplit, RawCreate, RawDelete,
   RawDeleteWhere, RawUpdateWhere, RawWith, RawExplain}

\* SecurityConfig values: readonly or not; the default operations, the
\* readonly ones, or the default ones with DROP; the default blocked keywords
SecurityConfigs ==
  [readonly_mode : BOOLEAN,
   allowed_operations : {allowed_operations, ReadonlyOperations,
                         allowed_operations \cup {"DROP"}},
   blocked_keywords : {DefaultConfig.blocked_keywords},
   max_query_length : {MaxLength}]

Comments == {<<BlockComment>>, <<LineComment, "\n">>}
CommentCount(raw) == Len(SelectSeq(raw, LAMBDA tok : tok \in {BlockComment, LineComment}))

\* the caller writes a comment into the statement, after its first k tokens
Comment(k, c) ==
  /\ CommentCount(sql) < MaxComments
  /\ IF sql = <<>> THEN TRUE ELSE sql[Len(sql)] # " "
  /\ sql' = SubSeq(sql, 1, k) \o c \o SubSeq(sql, k + 1, Len(sql))
  /\ validation' = NotValidated
  /\ UNCHANGED <<config, gvars, mvars, hvars>>

\* the caller appends a blank
Pad ==
  /\ Length(sql) <= config.max_query_length
  /\ sql' = Append(sql, " ")
  /\ validation' = NotValidated
  /\ UNCHANGED <<config, gvars, mvars, hvars>>

\* validate_query(sql)
Validate ==
  /\ validation = NotValidated
  /\ validation' = validate(config, sql)
  /\ UNCHANGED <<config, sql, gvars, mvars, hvars>>

ValidatorInit ==
  /\ config \in SecurityConfigs
  /\ sql \in Statements
  /\ validation = NotValidated
  /\ MetricsStart
  /\ HealthStart
  /\ GatewayStart
  /\ impl = "QT"

ValidatorNext ==
  \/ \E k \in 0..Len(sql), c \in Comments : Comment(k, c)
  \/ Pad
  \/ Validate

ValidatorSpec == ValidatorInit /\ [][ValidatorNext]_vars


\* ------------------------------------------------------------ health checks
\* HealthSpec follows the health checkers over every set of registered
\* connections and every state of their backends:
\*   QT  monitoring.py HealthChecker.check_overall_health
\*   QS  infrastructure/monitoring PostgreSQLHealthChecker
\*   MY  mysql_mcp MySQLHealthChecker
\* backend[id] is "absent" for an id that is not registered; the test of a
\* registered connection answers true ("up"), answers false ("down"), raises
\* ("raise") or does not answer ("hang").  Time is counted in whole seconds
\* while a check_connection_health call is waiting for the test.
\* timeout of PostgreSQLHealthChecker (the code's default is 30), scaled down
timeout_seconds == 2
\* longest wait that is followed
MaxWait == 3

BackendStates == {"up", "down", "raise", "hang"}
HostStates == {"ok", "warning", "critical"}

Registered == {id \in HealthIds : backend[id] # "absent"}
healthy_count == Cardinality({id \in Registered : backend[id] = "up"})
unhealthy_count == Cardinality(Registered) - healthy_count
Hanging == \E id \in Registered : backend[id] = "hang"

\* HealthChecker._check_connections, the verdict once every listed connection
\* is counted
connection_check_of(total, healthy, unhealthy) ==
  IF total = 0 THEN [is_healthy |-> TRUE, status |-> "no_connections"]
  ELSE IF unhealthy = 0 THEN [is_healthy |-> TRUE, status |-> "healthy"]
  ELSE IF healthy > unhealthy THEN [is_healthy |-> TRUE, status |-> "degraded"]
  ELSE [is_healthy |-> FALSE, status |-> "unhealthy"]

\* HealthChecker._check_connections
_check_connections ==
  connection_check_of(Cardinality(Registered), healthy_count, unhealthy_count)

\* HealthChecker._check_memory and _check_system_resources
_check_host(s) == [is_healthy |-> s # "critical", warning |-> s # "ok"]

\* HealthChecker.check_overall_health, given the result of _check_connections
overall_health_of(connection_check) ==
  LET memory_check == _check_host(host.memory)
      system_check == _check_host(host.system)
      overall_healthy == /\ connection_check.is_healthy
                         /\ memory_check.is_healthy
                         /\ system_check.is_healthy
      status == IF overall_healthy THEN "healthy"
                ELSE IF \/ connection_check.status = "degraded"
                        \/ memory_check.warning
                        \/ system_check.warning
                     THEN "degraded"
                ELSE "unhealthy"
  IN [kind |-> "overall", is_healthy |-> overall_healthy, status |-> status,
      connections |-> connection_check.status, detail |-> ""]

\* HealthChecker.check_overall_health
check_overall_health == overall_health_of(_check_connections)

\* PostgreSQLHealthChecker.check_system_health, MySQLHealthChecker.check_system_health:
\* the verdict once every listed connection is counted
system_health_of(total, healthy) ==
  LET is_healthy == IF impl = "QS"
                    THEN total = 0 \/ healthy = total
                    ELSE healthy > 0 \/ total = 0
  IN [kind |-> "system", is_healthy |-> is_healthy, status |-> "",
      connections |-> "", detail |-> ""]

\* PostgreSQLHealthChecker.check_system_health, MySQLHealthChecker.check_system_health
check_system_health == system_health_of(Cardinality(Registered), healthy_count)

\* a connection is registered or removed, or its backend changes
SetBackend(id, s) ==
  /\ backend[id] # s
  /\ backend' = [backend EXCEPT ![id] = s]
  /\ probe' = IF probe.pc = "checking" THEN [probe EXCEPT !.raced = TRUE] ELSE probe
  /\ report' = NoReport
  /\ UNCHANGED <<host, gvars, mvars, svars>>

\* memory, processor or disk use changes
SetHost(m, s) ==
  /\ host[m] # s
  /\ host' = [host EXCEPT ![m] = s]
  /\ report' = NoReport
  /\ UNCHANGED <<backend, probe, gvars, mvars, svars>>

\* check_overall_health / check_system_health with nothing else scheduled
\* between its awaits.  Only the PostgreSQL checker bounds the tests: the other
\* two wait for a test that does not answer.
CheckSystem ==
  /\ probe.pc = "idle"
  /\ impl \in {"QT", "MY"} => ~ Hanging
  /\ report' = IF impl = "QT" THEN check_overall_health ELSE check_system_health
  /\ UNCHANGED <<backend, host, probe, gvars, mvars, svars>>

ConnectionReport(is_healthy, detail) ==
  [kind |-> "connection", is_healthy |-> is_healthy, status |-> "",
   connections |-> "", detail |-> detail]

\* check_connection_health(id) starts the test
ProbeBegin(id) ==
  /\ impl \in {"QS", "MY"}
  /\ probe.pc = "idle"
  /\ probe' = [IdleProbe EXCEPT !.pc = "testing", !.id = id]
  /\ report' = NoReport
  /\ UNCHANGED <<backend, host, gvars, mvars, svars>>

\* a second passes while the test is awaited and does not answer
Tick ==
  /\ probe.pc = "testing"
  /\ backend[probe.id] = "hang"
  /\ probe.elapsed < MaxWait
  /\ impl = "QS" => probe.elapsed < timeout_seconds
  /\ probe' = [probe EXCEPT !.elapsed = @ + 1]
  /\ UNCHANGED <<backend, host, report, gvars, mvars, svars>>

\* the test answers or raises; check_connection_health returns
ProbeReturn ==
  /\ probe.pc = "testing"
  /\ backend[probe.id] # "hang"
  /\ report' = CASE backend[probe.id] = "up" -> ConnectionReport(TRUE, "")
                 [] backend[probe.id] = "raise" -> ConnectionReport(FALSE, "error")
                 [] OTHER -> ConnectionReport(FALSE, IF impl = "MY" THEN "Connection test failed" ELSE "")
  /\ probe' = IdleProbe
  /\ UNCHANGED <<backend, host, gvars, mvars, svars>>

\* asyncio.wait_for gives up the test
ProbeTimeout ==
  /\ impl = "QS"
  /\ probe.pc = "testing"
  /\ probe.elapsed = timeout_seconds
  /\ report' = ConnectionReport(FALSE, "Timeout")
  /\ probe' = IdleProbe
  /\ UNCHANGED <<backend, host, gvars, mvars, svars>>

\* check_overall_health / check_system_health awaits the list of connections;
\* from here on other callers run at each of its awaits
SystemBegin ==
  /\ probe.pc = "idle"
  /\ probe' = [IdleProbe EXCEPT !.pc = "checking", !.todo = Registered]
  /\ report' = NoReport
  /\ UNCHANGED <<backend, host, gvars, mvars, svars>>

\* a listed connection counted without a test
SystemTestSkipsUnknown(id) ==
  /\ probe.pc = "checking"
  /\ id \in probe.todo
  /\ impl \in {"QT", "MY"} => backend[id] # "hang"
  /\ probe' = [probe EXCEPT !.todo = @ \ {id},
                            !.healthy = IF backend[id] \in {"up", "absent"} THEN @ + 1 ELSE @,
                            !.unhealthy = IF backend[id] \in {"up", "absent"} THEN @ ELSE @ + 1,
                            !.gone = @ \/ backend[id] = "absent"]
  /\ UNCHANGED <<backend, host, report, gvars, mvars, svars>>

\* the test of one listed connection returns and is counted: test_connection
\* answers unhealthy for an id that is no longer registered, for a refused
\* round trip and for an error; asyncio.wait_for (PostgreSQL checker only)
\* turns a test that does not answer into an unhealthy status
SystemTest(id) ==
  /\ probe.pc = "checking"
  /\ id \in probe.todo
  /\ impl \in {"QT", "MY"} => backend[id] # "hang"
  /\ probe' = [probe EXCEPT !.todo = @ \ {id},
                            !.healthy = IF backend[id] = "up" THEN @ + 1 ELSE @,
                            !.unhealthy = IF backend[id] = "up" THEN @ ELSE @ + 1,
                            !.gone = @ \/ backend[id] = "absent"]
  /\ UNCHANGED <<backend, host, report, gvars, mvars, svars>>

\* every listed connection is counted: the status is built and returned
SystemEnd ==
  /\ probe.pc = "checking"
  /\ probe.todo = {}
  /\ report' =
       LET total == probe.healthy + probe.unhealthy
           status == IF impl = "QT"
                     THEN overall_health_of(connection_check_of(total, probe.healthy, probe.unhealthy))
                     ELSE system_health_of(total, probe.healthy)
       IN IF probe.raced
          THEN [status EXCEPT !.kind = "raced",
                              !.detail = IF probe.gone THEN "removed" ELSE ""]
          ELSE status
  /\ probe' = IdleProbe
  /\ UNCHANGED <<backend, host, gvars, mvars, svars>>

HealthInit ==
  /\ HealthStart
  /\ MetricsStart
  /\ ValidatorStart
  /\ GatewayStart

HealthNext ==
  \/ \E id \in HealthIds, s \in BackendStates \cup {"absent"} : SetBackend(id, s)
  \/ \E m \in {"memory", "system"}, s \in HostStates : SetHost(m, s)
  \/ CheckSystem
  \/ SystemBegin
  \/ \E id \in HealthIds : SystemTest(id)
  \/ SystemEnd
  \/ \E id \in HealthIds : ProbeBegin(id)
  \/ Tick
  \/ ProbeReturn
  \/ ProbeTimeout

HealthSpec == HealthInit /\ [][HealthNext]_vars


\* ================================================================== claims
ExecOps == {"query", "tx", "batch"}
TxOps == {"tx", "txsp"}
TxBody == {"sp", "stmt", "rbsp", "commit", "abort"}

\* the effects of the statements of p's transaction that succeeded so far
SuccessEffects(p) ==
  {<<p, j>> : j \in {n \in 1..Len(task[p].results) :
                       task[p].results[n] /\ IsWrite(task[p].queries[n])}}

\* C1: in every call of execute_query, execute_transaction and execute_batch,
\* on each of the three variants, a statement reaches the backend only after
\* the validator accepted it in that call.
C1_ValidatedBeforeDispatch ==
  \A p \in Procs :
    task[p].op \in ExecOps =>
      \A n \in 1..Len(task[p].dispatched) : task[p].dispatched[n] \in task[p].accepted

\* C2: when a statement of execute_transaction fails (every statement having
\* fail_on_error = true), the result reports rolled_back = true and no effect
\* of the transaction is visible to later queries.  Stated for the variants
\* whose result carries rolled_back (QueryTool, MySQLQueryExecutor).
C2_TransactionAllOrNothing ==
  \A p \in Procs :
    ( /\ impl \in {"QT", "MY"}
      /\ task[p].op = "tx"
      /\ task[p].pc = "done"
      /\ task[p].failed
      /\ \A n \in 1..Len(task[p].queries) : task[p].fail_on_error[n] )
    => /\ task[p].res.rolled_back
       /\ ~ task[p].res.success
       /\ committed \cap Effects(p) = {}

\* a transaction whose second statement failed after the first had succeeded
C2_Witness ==
  \E p \in Procs :
    /\ impl \in {"QT", "MY"}
    /\ task[p].op = "tx" /\ task[p].pc = "done" /\ task[p].failed
    /\ Len(task[p].dispatched) = 2
    /\ IsWrite(task[p].queries[1])
    /\ \A n \in 1..Len(task[p].queries) : task[p].fail_on_error[n]
    /\ task[p].res.rolled_back

C4_FailOnErrorHonoured ==
  \A p \in Procs :
    task[p].op \in TxOps =>
      LET t == task[p]
      IN /\ t.pc = "abort" => t.fail_on_error[t.i]
         /\ (t.pc = "done" /\ t.returns = 1 /\ ~ t.res.raised) =>
              IF t.i > Len(t.queries)
              THEN t.res.success /\ ~ t.res.rolled_back /\ SuccessEffects(p) \subseteq committed
              ELSE /\ t.fail_on_error[t.i]
                   /\ t.res.rolled_back
                   /\ Len(t.dispatched) = t.i
                   /\ committed \cap Effects(p) = {}

\* C5: when a connection goes back to its pool no transaction is open on it.
C5_NoReleaseInTransaction ==
  \A p \in Procs : task[p].pc = "release" => ~ txOpen[Held(task[p])]

\* C6: a checked-out connection belongs to a pool that has not been closed,
\* and a pool is closed, and a registry entry deleted, only when every
\* checkout of the pool concerned has been returned.
C6_RemoveWaitsForCheckouts ==
  [][ /\ \A p \in Procs :
           task[p].conn # 0 => poolState[task[p].pool] \in {"open", "closing"}
      /\ \A k \in PoolRefs :
           (poolState[k] # "closed" /\ poolState'[k] = "closed") => Drained(k)
      /\ \A id \in Ids :
           (pools[id] # 0 /\ pools'[id] = 0) => Drained(pools[id]) ]_vars

\* C7: a call that reaches the checkout while the pool of its id is being
\* drained ends at once with a NotFound error.
C7_NotFoundWhileDraining ==
  [][ \A p \in Procs, id \in Ids :
        ( /\ task[p].pc = "idle"
          /\ task'[p].op \in ExecOps \cup {"test"}
          /\ task'[p].id = id
          /\ pools[id] # 0
          /\ poolState[pools[id]] = "closing"
          /\ (impl # "MY" /\ task'[p].op \in ExecOps) =>
                task'[p].accepted = 1..Len(task'[p].queries)
          /\ task'[p].res.error # "NotSelect" )
        => /\ task'[p].pc = "done"
           /\ task'[p].res.error = "NotFound" ]_vars

\* C8: a physical connection has at most one holder and is not idle while
\* held, a pool never has more than its maximum size checked out, and every
\* call returns the connection it checked out exactly once.
C8_ExclusiveCheckout ==
  /\ \A p, q \in Procs :
       (p # q /\ task[p].conn # 0) => Held(task[p]) # Held(task[q])
  /\ \A p \in Procs : task[p].conn # 0 => task[p].conn \notin free[task[p].pool]
  /\ \A k \in PoolRefs :
       Cardinality({p \in Procs : task[p].pool = k /\ task[p].conn # 0})
         + Cardinality(free[k]) <= MaxSize
  /\ \A p \in Procs :
       /\ task[p].checkouts <= 1
       /\ task[p].returns = (IF task[p].conn # 0 THEN task[p].checkouts - 1
                             ELSE task[p].checkouts)
       /\ task[p].pc \in {"idle", "done"} => task[p].conn = 0

\* a call that failed at the backend has returned its one checkout
C8_Witness ==
  \E p \in Procs :
    /\ task[p].pc = "done" /\ task[p].op \in ExecOps \cup {"test"}
    /\ task[p].checkouts = 1 /\ task[p].returns = 1
    /\ task[p].res.error \in {"QueryFailed", "TransactionError"}
    /\ \E q \in Procs : q # p /\ task[q].conn # 0

\* C9: the statements of a transaction are sent in list order, each once, on
\* the one connection checked out for it, which no other caller holds between
\* the begin and the commit or rollback.
C9_SequentialOnOneConnection ==
  \A p \in Procs :
    task[p].op \in TxOps =>
      /\ \A n \in 1..Len(task[p].dispatched) : task[p].dispatched[n] = n
      /\ task[p].checkouts <= 1
      /\ task[p].pc \in TxBody =>
           /\ task[p].conn # 0
           /\ Len(task[p].dispatched) \in {task[p].i - 1, task[p].i}
           /\ \A q \in Procs : q # p => Held(task[q]) # Held(task[p])

\* both statements of a transaction have been sent while another caller is
\* waiting for the connection
C9_Witness ==
  \E p \in Procs :
    /\ task[p].op \in TxOps /\ task[p].pc = "commit"
    /\ task[p].dispatched = <<1, 2>>
    /\ \E q \in Procs : q # p /\ task[q].pc = "acquire" /\ task[q].pool = task[p].pool

\* C10: between calls the ids with a pool handle are the ids with a
\* descriptor.
C10_HandleIffDescriptor ==
  (\A p \in Procs : task[p].pc = "idle") =>
    \A id \in Ids : (pools[id] # 0) <=> (connections[id] # "none")

\* C11: a registration of an id that was registered when the call was made
\* ends with an AlreadyExists failure and leaves the pool handle and the
\* descriptor of that id as they were.
C11_DuplicateRejected ==
  [][ \A p \in Procs :
        (task[p].op = "add" /\ task[p].dup /\ task[p].pc # "done" /\ task'[p].pc = "done")
        => /\ ~ task'[p].res.success
           /\ task'[p].res.error = "AlreadyExists"
           /\ pools'[task[p].id] = pools[task[p].id]
           /\ connections'[task[p].id] = connections[task[p].id] ]_vars

\* C12: every failure of execute_query, execute_transaction and
\* execute_batch reaches the caller as a result with success = false, an
\* error text and an error_type tag, never as an exception; a successful
\* result carries no error.
C12_ErrorsAreData ==
  \A p \in Procs :
    (task[p].op \in ExecOps /\ task[p].pc = "done") =>
      /\ ~ task[p].res.raised
      /\ ~ task[p].res.success => (task[p].res.error # "" /\ task[p].res.error_type # "")
      /\ task[p].res.success => (task[p].res.error = "" /\ task[p].res.error_type = "")

\* C13: an execution that ran into its timeout ends with a failed result
\* that names the timeout; the timeout does not leave the operation as an
\* exception.
C13_TimeoutIsFailedResult ==
  \A p \in Procs :
    (task[p].pc \in {"release", "done"} /\ task[p].res.error = "TimeoutError") =>
      /\ ~ task[p].res.raised
      /\ ~ task[p].res.success

\* C14: when the validator rejects a statement of the list given to
\* execute_transaction, the call checks out no connection, sends no statement
\* (the accepted ones before it included), and answers success = false,
\* rolled_back = false with an empty list of statement results.  Stated for
\* the variants that have a validator (QueryTool, QueryService).
C14_TransactionPreValidation ==
  \A p \in Procs :
    ( /\ impl \in {"QT", "QS"}
      /\ task[p].op = "tx"
      /\ task[p].accepted # 1..Len(task[p].queries) )
    => /\ task[p].pc = "done"
       /\ task[p].checkouts = 0
       /\ task[p].dispatched = <<>>
       /\ task[p].results = <<>>
       /\ ~ task[p].res.success
       /\ ~ task[p].res.rolled_back
       /\ task[p].res.error # ""

\* a two-statement list on a registered id whose first statement is accepted
\* and whose second is rejected
C14_Witness ==
  \E p \in Procs :
    /\ impl \in {"QT", "QS"}
    /\ task[p].op = "tx" /\ task[p].pc = "done"
    /\ Len(task[p].queries) = 2 /\ task[p].accepted = {1}
    /\ pools[task[p].id] # 0 /\ poolState[pools[task[p].id]] = "open"
    /\ free[pools[task[p].id]] # {}

\* C15: once a removal of id has returned success (and id is not registered),
\* an execute_query on id ends at once, without a checkout, with success =
\* false and error_type ConnectionError; an execute_query whose statement the
\* validator rejects ends with error_type SecurityError and leaves the
\* registry and the pool as they were.
C15_ErrorTypeAfterRemove ==
  [][ \A p \in Procs, id \in Ids :
        (task[p].pc = "idle" /\ task'[p].op = "query" /\ task'[p].id = id) =>
          /\ ( /\ pools[id] = 0
               /\ \E q \in Procs : /\ q # p
                                   /\ task[q].op = "remove" /\ task[q].pc = "done"
                                   /\ task[q].id = id /\ task[q].res.success
               /\ impl # "MY" => task'[p].accepted = {1} )
             => /\ task'[p].pc = "done"
                /\ task'[p].checkouts = 0
                /\ ~ task'[p].res.success
                /\ task'[p].res.error_type = "ConnectionError"
          /\ ( /\ impl # "MY"
               /\ pools[id] # 0
               /\ task'[p].accepted = {} )
             => /\ task'[p].pc = "done"
                /\ task'[p].checkouts = 0
                /\ ~ task'[p].res.success
                /\ task'[p].res.error_type = "SecurityError"
                /\ pools' = pools /\ connections' = connections
                /\ poolState' = poolState /\ free' = free ]_vars

\* C17: an execution issues the collector's record operation at most once,
\* and exactly once when it went as far as the checkout: one call for an
\* execute_query, one for a batch, one for a transaction as a whole.
C17_RecordOncePerExecution ==
  \A p \in Procs :
    (task[p].op \in ExecOps /\ task[p].pc = "done") =>
      /\ Len(task[p].recorded) <= 1
      /\ task[p].checkouts = 1 => Len(task[p].recorded) = 1

\* C16: for every connection id, after every record call and after any
\* sequence of record and reset calls, total_queries = successful_queries +
\* failed_queries, and none of the three counters decreases in a step that
\* is not a reset of that id.
C16_CountersConsistent ==
  [][ \A id \in MetricKeys :
        LET old == connection_metrics[id]
            new == connection_metrics'[id]
        IN /\ new.total_queries = new.successful_queries + new.failed_queries
           /\ (~ ResetAll /\ ~ ResetConnection(id)) =>
                /\ new.total_queries >= old.total_queries
                /\ new.successful_queries >= old.successful_queries
                /\ new.failed_queries >= old.failed_queries ]_vars

\* C16 witness: an id with a success and a failure recorded after a reset
\* (the global counter has seen more records than the log holds).
C16_Witness ==
  \E id \in MetricKeys :
    /\ connection_metrics[id].successful_queries = 1
    /\ connection_metrics[id].failed_queries = 1
    /\ connection_metrics[id].total_queries = 2
    /\ global_metrics.total_queries > Len(record_log)

\* the records of id among log
IdLog(log, id) == SelectSeq(log, LAMBDA e : e.connection_id = id)

RECURSIVE SumLatency(_)
SumLatency(log) ==
  IF log = <<>> THEN 0 ELSE Head(log).execution_time_ms + SumLatency(Tail(log))

\* the mean of the latencies in log as a fraction in lowest terms
TrueMean(log) == IF log = <<>> THEN <<0, 1>> ELSE Norm(<<SumLatency(log), Len(log)>>)

\* C18: for every connection id and every sequence of recorded latencies, the
\* average kept by the incremental update new_avg = (old_avg * (n - 1) + x) / n
\* (and the average computed as total / count by the tool server's collector)
\* equals the true mean of the latencies recorded for that id since its last
\* reset.
C18_AverageIsTrueMean ==
  \A id \in MetricKeys :
    impl \in {"MY", "QT"} => get_average(id) = TrueMean(IdLog(record_log, id))

\* C18 witness: the incremental average of an id is a proper fraction after
\* a reset of that id and two further records.
C18_Witness ==
  \E id \in MetricKeys :
    /\ impl = "MY"
    /\ connection_metrics[id].total_queries = 2
    /\ connection_metrics[id].average_execution_time_ms[2] = 2
    /\ global_metrics.total_queries > Len(record_log)

\* C19: after any sequence of record and reset calls, the global total,
\* successful and failed counts each equal the sum of the corresponding
\* per-connection counts over all the connection ids the collector reports.
C19_GlobalIsSum ==
  /\ get_global_metrics.total_queries = SumOver(MetricIds, "total_queries")
  /\ get_global_metrics.successful_queries = SumOver(MetricIds, "successful_queries")
  /\ get_global_metrics.failed_queries = SumOver(MetricIds, "failed_queries")

\* the last n elements of s
Last(s, n) == IF Len(s) <= n THEN s ELSE SubSeq(s, Len(s) - n + 1, Len(s))

\* the records the history of id is fed with: the one list of the tool
\* server gets every record, the other collectors keep a list per id
Arrived(id) == IF impl = "QT" THEN record_log ELSE IdLog(record_log, id)

\* C20: after any number of record calls the history of recent records is
\* never longer than its capacity, it holds exactly the most recent records
\* in arrival order (the oldest is dropped first), and the aggregate
\* counters keep counting every record, dropped from the history or not.
C20_HistoryIsBoundedRing ==
  \A id \in MetricKeys :
    /\ Len(get_history(id)) <= max_history
    /\ get_history(id) = Last(Arrived(id), max_history)
    /\ connection_metrics[id].total_queries = Len(IdLog(record_log, id))

\* C20 witness: an id has more records counted than its full history holds.
C20_Witness ==
  \E id \in MetricKeys :
    /\ Len(get_history(id)) = max_history
    /\ connection_metrics[id].total_queries > max_history

\* C21: a batch with N parameter sets reports batch_size = N on success, on
\* validation rejection, on an unknown connection and on a backend failure,
\* and every failed batch reports zero affected rows.
C21_BatchSizeReported ==
  \A p \in Procs :
    (task[p].op = "batch" /\ task[p].pc = "done") =>
      /\ BatchReport(task[p]).reported
      /\ BatchReport(task[p]).batch_size = task[p].batch_size
      /\ ~ task[p].res.success => BatchReport(task[p]).rows_affected = 0

\* C22: a batch with zero parameter sets and a transaction with zero
\* statements that succeed are no-ops: zero affected rows and no effect on
\* the database, and for the transaction rolled_back = false with an empty
\* list of statement results.
C22_EmptyIsNoOpSuccess ==
  \A p \in Procs :
    (task[p].pc = "done" /\ task[p].res.success) =>
      /\ (task[p].op = "batch" /\ task[p].batch_size = 0) =>
           /\ BatchReport(task[p]).rows_affected = 0
           /\ committed \cap Effects(p) = {}
      /\ (task[p].op = "tx" /\ task[p].queries = <<>>) =>
           /\ ~ task[p].res.rolled_back
           /\ task[p].results = <<>>
           /\ committed \cap Effects(p) = {}

\* C23: an empty statement string is rejected with EMPTY_QUERY, before the
\* security validator runs (its reasons do not appear) and before any
\* connection is looked up or checked out.
C23_EmptyQueryRejectedFirst ==
  \A p \in Procs :
    (task[p].op = "query" /\ task[p].queries = <<SqlEmpty>>) =>
      /\ task[p].pc = "done"
      /\ ~ task[p].res.success
      /\ task[p].res.error = "EMPTY_QUERY"
      /\ task[p].checkouts = 0
      /\ task[p].dispatched = <<>>

\* the operation validate_query classifies sql as
Classified == _get_operation_type(_clean_query(sql))

\* C24: validate returns QUERY_TOO_LONG for exactly the statements whose
\* length is at or over the configured maximum, whatever other rules they
\* violate.
C24_LengthRule ==
  validation # NotValidated =>
    (validation.blocked_reason = "QUERY_TOO_LONG" <=> Length(sql) >= config.max_query_length)

\* C25: in readonly mode every non-empty statement (under the maximum length) whose
\* classified operation is not SELECT, WITH or EXPLAIN is rejected with
\* READONLY_MODE_VIOLATION, whatever the allowed operations are, and a
\* SELECT, WITH or EXPLAIN statement that is allowed and violates no other
\* rule is accepted.
C25_ReadonlyRule ==
  (validation # NotValidated /\ config.readonly_mode
     /\ _clean_query(sql) # SqlEmpty
     /\ Length(sql) < config.max_query_length) =>
    IF Classified \notin ReadonlyOperations
    THEN ~ validation.is_valid /\ validation.blocked_reason = "READONLY_MODE_VIOLATION"
    ELSE (/\ Classified \in config.allowed_operations
          /\ ~ HasWord(_clean_query(sql), blocked_keywords)
          /\ ~ _dangerous_patterns(_clean_query(sql))) => validation.is_valid

\* C26: outside readonly mode every statement (under the maximum length)
\* whose classified operation is a blocked keyword is rejected with reason
\* BLOCKED_KEYWORD and a message naming the keyword, with or without
\* comments around or inside the keyword.
C26_BlockedKeywordRule ==
  (validation # NotValidated /\ ~ config.readonly_mode
     /\ Length(sql) < config.max_query_length
     /\ Classified \in blocked_keywords) =>
    /\ ~ validation.is_valid
    /\ validation.blocked_reason = "BLOCKED_KEYWORD"
    /\ validation.named = Classified

\* C27: with UPDATE and DELETE allowed and not blocked (readonly mode off,
\* statement under the maximum length), an UPDATE ... SET ... WHERE ... and a
\* DELETE FROM ... WHERE ... statement are accepted and a DELETE FROM without
\* WHERE is rejected with DANGEROUS_PATTERN.
C27_UpdateDeleteRule ==
  (validation # NotValidated /\ ~ config.readonly_mode
     /\ {"UPDATE", "DELETE"} \subseteq config.allowed_operations
     /\ Length(sql) < config.max_query_length) =>
    /\ _clean_query(sql) \in {_clean_query(RawUpdateWhere), _clean_query(RawDeleteWhere)}
         => validation.is_valid
    /\ _clean_query(sql) = _clean_query(RawDelete)
         => ~ validation.is_valid /\ validation.blocked_reason = "DANGEROUS_PATTERN"

\* C28: check_system_health (and the connections part of
\* check_overall_health, the host being well) reports healthy exactly when no
\* connection is registered or at least one registered connection is healthy.
C28_SystemHealthyIffSomeHealthy ==
  (report.kind = "system" \/ (report.kind = "overall" /\ host = [memory |-> "ok", system |-> "ok"])) =>
    (report.is_healthy <=> (Registered = {} \/ healthy_count > 0))

\* C29: with at least one healthy and at least one unhealthy registered
\* connection, memory and system being healthy, check_overall_health reports
\* is_healthy = true, overall status "degraded" and connections status
\* "degraded".
C29_MixedIsDegraded ==
  (/\ report.kind = "overall"
   /\ host = [memory |-> "ok", system |-> "ok"]
   /\ healthy_count > 0
   /\ unhealthy_count > 0) =>
    /\ report.is_healthy
    /\ report.status = "degraded"
    /\ report.connections = "degraded"

\* C30: check_connection_health waits for the test no longer than the
\* timeout (timeout_seconds), and what it returns for a test that timed out or raised is an
\* unhealthy status with the timeout or the error as its detail.
C30_TestBoundedByTimeout ==
  /\ probe.pc = "testing" => probe.elapsed <= timeout_seconds
  /\ (report.kind = "connection" /\ report.detail \in {"Timeout", "error"}) => ~ report.is_healthy

\* C31: test_connection never raises: its result is an unhealthy verdict for
\* an unknown id, for a refused checkout and for a backend error; the verdict
\* becomes healthy only at the round trip on a checked-out connection; and
\* when it returns, every connection it checked out is back in the pool.
C31_TestConnectionNeverRaises ==
  [][\A p \in Procs :
       task'[p].op = "test" =>
         /\ ~ task'[p].res.raised
         /\ (task'[p].res.success /\ ~ task[p].res.success)
              => (task[p].pc = "exec" /\ task[p].conn # 0 /\ task[p].conn \notin free[task[p].pool])
         /\ task'[p].res.error # "" => ~ task'[p].res.success
         /\ task'[p].pc = "done"
              => (task'[p].returns = task'[p].checkouts /\ task'[p].conn = 0)]_vars

\* a test has answered healthy and has returned its connection; another one
\* has answered unhealthy
C31_Witness ==
  \E p, q \in Procs :
    /\ task[p].op = "test" /\ task[p].pc = "done" /\ task[p].res.success
    /\ task[p].returns = 1
    /\ task[q].op = "test" /\ task[q].pc = "done" /\ ~ task[q].res.success

\* C32: a caller that waits for a checkout does not wait forever: it obtains
\* a connection or its call ends with an error.
C32_CheckoutWaitIsBounded ==
  \A p \in Procs : (task[p].pc = "acquire") ~> (task[p].pc # "acquire")

\* C33 (as stated): QueryTool.execute_query ends every call whose statement
\* passed validation and does not start with SELECT, WITH or EXPLAIN as a
\* failure with the only-SELECT error, without a checkout.
C33_NonSelectRejected ==
  [][\A p \in Procs :
       (/\ impl = "QT"
        /\ task[p].pc = "idle"
        /\ task'[p].op = "query"
        /\ validate_query(task'[p].queries[1]) = ""
        /\ ~ startswith(task'[p].queries[1], {"SELECT", "WITH", "EXPLAIN"}))
       => /\ task'[p].pc = "done"
          /\ ~ task'[p].res.success
          /\ task'[p].res.error = "NotSelect"
          /\ task'[p].checkouts = 0]_vars

\* C33: on a registered connection id, QueryTool.execute_query ends every
\* call whose statement passed validation and does not start with SELECT,
\* WITH or EXPLAIN as a failure with the only-SELECT error, without a
\* checkout; on an unknown id the call fails as well, with the not-found
\* error.
C33_NonSelectRejectedOnKnownId ==
  [][\A p \in Procs :
       (/\ impl = "QT"
        /\ task[p].pc = "idle"
        /\ task'[p].op = "query"
        /\ validate_query(task'[p].queries[1]) = ""
        /\ ~ startswith(task'[p].queries[1], {"SELECT", "WITH", "EXPLAIN"}))
       => /\ task'[p].pc = "done"
          /\ ~ task'[p].res.success
          /\ task'[p].res.error = IF pools[task'[p].id] # 0 THEN "NotSelect" ELSE "NotFound"
          /\ task'[p].checkouts = 0]_vars

\* an allowed INSERT on a registered id has been refused by execute_query
C33_Witness ==
  \E p \in Procs :
    /\ impl = "QT"
    /\ task[p].op = "query" /\ task[p].pc = "done"
    /\ task[p].queries = <<SqlInsert>>
    /\ pools[task[p].id] # 0
    /\ task[p].res.error = "NotSelect"

\* C34: a registration that fails leaves nothing behind: as long as the id
\* it was called for (not registered when the call began) has no pool handle,
\* it has no descriptor or stored configuration of a registered connection
\* either.
C34_FailedAddLeavesNothing ==
  \A p \in Procs :
    (/\ task[p].op = "add" /\ task[p].pc = "done"
     /\ ~ task[p].res.success
     /\ ~ task[p].dup
     /\ pools[task[p].id] = 0)
    => connections[task[p].id] # "active"

\* C35: no pool is leaked: every pool that has been created and is not yet
\* closed is the pool of some id in the registry, or is being closed by a
\* remove or cleanup call.
C35_NoPoolLeaked ==
  \A k \in PoolRefs :
    poolState[k] \in {"open", "closing"} =>
      \/ \E id \in Ids : pools[id] = k
      \/ \E p \in Procs : /\ task[p].op \in {"remove", "cleanup"}
                          /\ task[p].pc = "drain"
                          /\ task[p].pool = k

C37_OtherIdsUnchanged ==
  [][ \A A \in MetricKeys, B \in MetricKeys :
        (/\ A # B
         /\ impl \in {"QS", "MY"}
         /\ \/ \E execution_time_ms \in Latencies, success \in BOOLEAN :
                 Record(A, execution_time_ms, success)
            \/ ResetConnection(A))
        => /\ connection_metrics'[B] = connection_metrics[B]
           /\ get_average(B)' = get_average(B)
           /\ get_history(B)' = get_history(B) ]_vars

\* c1 was recorded once and then reset, c2 holds its one record
C37_Witness ==
  /\ impl \in {"QS", "MY"}
  /\ connection_metrics["c1"].total_queries = 0
  /\ connection_metrics["c2"].total_queries = 1
  /\ Len(connection_metrics["c2"].query_history) = 1
  /\ global_metrics.total_queries = 2

\* C38: no record call is lost, whatever the order in which the calls of
\* concurrent executions reach the collector: a connection id's total count
\* is the number of record calls for it since its last reset, and every
\* record call raises that count and the global total by one.
C38_NoLostUpdate ==
  [][ \A id \in MetricKeys :
        impl \in {"QS", "MY"} =>
          /\ connection_metrics'[id].total_queries = Len(IdLog(record_log', id))
          /\ (\E execution_time_ms \in Latencies, success \in BOOLEAN :
                Record(id, execution_time_ms, success))
             => /\ connection_metrics'[id].total_queries
                     = connection_metrics[id].total_queries + 1
                /\ get_global_metrics'.total_queries
                     = get_global_metrics.total_queries + 1 ]_vars

\* c1 was recorded once and reset; since then c1 was recorded twice
C38_Witness ==
  /\ impl \in {"QS", "MY"}
  /\ connection_metrics["c1"].total_queries = 2
  /\ Len(record_log) = 2
  /\ global_metrics.total_queries = 3

\* C39: when a connection is removed after check_system_health (or
\* check_overall_health) listed it and before it is tested, the check goes on:
\* the test of the removed connection is answered at once and counted as
\* unhealthy and not as healthy, and once every listed connection is counted
\* the check returns a status, which is unhealthy where one unhealthy
\* connection decides (PostgreSQL checker).
C39_RemovedDuringCheckIsUnhealthy ==
  [][ /\ \A id \in HealthIds :
           /\ (probe.pc = "checking" /\ id \in probe.todo /\ backend[id] = "absent")
                => ENABLED SystemTest(id)
           /\ (SystemTest(id) /\ backend[id] = "absent")
                => /\ probe'.unhealthy = probe.unhealthy + 1
                   /\ probe'.healthy = probe.healthy
                   /\ probe'.pc = "checking"
      /\ (probe.pc = "checking" /\ probe.todo = {}) => ENABLED SystemEnd
      /\ (SystemEnd /\ probe.gone)
           => /\ report'.kind = "raced"
              /\ report'.detail = "removed"
              /\ probe' = IdleProbe
              /\ impl = "QS" => ~ report'.is_healthy ]_vars

\* C39 witness: a check has returned its status after a connection it had
\* listed was removed before its test.
C39_Witness ==
  /\ report.kind = "raced"
  /\ report.detail = "removed"
  /\ probe.pc = "idle"

====
